---- MODULE Spec2Model ----
(***************************************************************************)
(* Model of the storage layer of SocialNetworkScraper                       *)
(* (src/utils/storage.js): the StorageUtils wrapper around IndexedDB, its   *)
(* batch transactions, the export-flag ledger, the cursor queries and the   *)
(* fast statistics cache.                                                   *)
(*                                                                          *)
(* A media record is a TLA+ record with the fields the code reads:          *)
(*   id, platform, userId, thumbnailUrl, scrapedAt, exportFlags, exported.  *)
(* JavaScript "absent / undefined" is written:                              *)
(*   exportFlags = Undef, exported = "absent", scrapedAt = 0, userId = "",  *)
(*   platform = "", thumbnailUrl = "".                                      *)
(* An object store is a function from the keys present to their records;    *)
(* its cursor order is the ascending key order.                             *)
(***************************************************************************)
EXTENDS Integers, Sequences, FiniteSets, TLC

VARIABLES
    db,            \* this.db: TRUE once the database handle is set
    initPromise,   \* this._initPromise: 0 = null, n = the promise of open attempt n
    openReqs,      \* indexedDB.open requests in flight (set of attempt numbers)
    awaiting,      \* awaiting[c]: the promise caller c is awaiting inside init() (0 = none)
    rejected,      \* the callers whose latest init() was rejected
    media,         \* committed content of the "media" object store
    thumbs,        \* committed content of the "thumbnails" object store
    txn,           \* the read-write transaction in progress and the promise it settles
    dirty,         \* localStorage[_DIRTY_KEY]
    cache,         \* localStorage[_CACHE_KEY] (the fast statistics snapshot)
    stats,         \* the getStorageUsage call in progress / its last returned result
    now,           \* Date.now(), in units of the cache TTL
    hasLocalStorage, \* FALSE in the service worker, TRUE in an extension page
    qin,           \* inputs of the experiments (criteria, page size, ids, flags, calls)
    pager,         \* the pagination loop over queryMedia and the results of the other queries
    ledger,        \* the markAsExported experiment: collection before, calls made
    detailed,      \* chrome.storage.local[_STATS_KEY]: the detailed-statistics snapshot
    calc,          \* the run of calculateDetailedStats and the statuses it has written
    calcRequested, \* a CALCULATE_STATS message is on its way to the background context
    card,          \* the dashboard card loading its thumbnail (loadThumbnailForCard)
    pop,           \* the background cache population: isPopulating and its queue
    cacheState,    \* chrome.storage.local[CACHE_STATE_KEY]: the persisted run-state
    announced,     \* the last CACHE_PROGRESS_UPDATE the background context broadcast
    worker,        \* the service worker: whether it is alive, how often it was stopped
    pair           \* two write operations issued together and their transactions

vars == <<db, initPromise, openReqs, awaiting, rejected, media, thumbs, txn, dirty,
          cache, stats, now, hasLocalStorage, pair, qin, pager, ledger,
          detailed, calc, calcRequested, card, pop, cacheState, announced, worker>>

dbVars      == <<db, initPromise, openReqs, awaiting, rejected>>
storeVars   == <<media, thumbs>>
cacheVars   == <<dirty, cache, stats>>
queryVars   == <<qin, pager, ledger>>
detailVars  == <<detailed, calc, calcRequested>>
bgVars      == <<cacheState, announced, worker>>
thumbVars   == <<card, pop, bgVars>>

----------------------------------------------------------------------------
(* Bounds of the model *)

MaxId       == 2   \* media ids 1..MaxId in the storage machine
MaxBatch    == 2   \* longest batch handed to saveAll / deleteBatch / markAsExported / importData
NCallers    == 2   \* contexts calling init() concurrently
MaxOpens    == 2   \* indexedDB.open requests that can be in flight together
MaxNow      == 6   \* the clock runs 1..MaxNow (minutes)
MaxStops    == 1   \* times the browser stops the service worker
MaxImport   == 3   \* longest input list of importData in the import experiment
MaxDay      == 3   \* the clock of the thumbnail cache runs 1..MaxDay (days)
MaxQueryId  == 3   \* media ids 1..MaxQueryId in the query experiments
MaxPage     == 2   \* page sizes 1..MaxPage

Ids      == 1..MaxId
Callers  == 1..NCallers
QueryIds == 1..MaxQueryId

----------------------------------------------------------------------------
(* Export flags, storage.js:1043-1052 *)

VIEWED     == 1
URLS       == 2
USERS      == 4
THUMBNAILS == 8
CSV        == 16
DB         == 32

RECURSIVE BitOr(_, _)
BitOr(a, b) ==
    IF a = 0 THEN b
    ELSE IF b = 0 THEN a
    ELSE (IF (a % 2 = 1) \/ (b % 2 = 1) THEN 1 ELSE 0) + 2 * BitOr(a \div 2, b \div 2)

RECURSIVE BitAnd(_, _)
BitAnd(a, b) ==
    IF a = 0 \/ b = 0 THEN 0
    ELSE (IF (a % 2 = 1) /\ (b % 2 = 1) THEN 1 ELSE 0) + 2 * BitAnd(a \div 2, b \div 2)

ALL_EXPORT == BitOr(URLS, BitOr(USERS, BitOr(THUMBNAILS, BitOr(CSV, DB))))

ChannelFlags == {URLS, USERS, THUMBNAILS, CSV, DB}

----------------------------------------------------------------------------
(* Values *)

Undef == -1                       \* typeof x === "undefined"

DataUri == "data:image/png"       \* a thumbnailUrl for which startsWith("data:") holds
HttpUrl == "https://x/y.jpg"      \* a resolved thumbnail URL

StartsWithData(u) == u = DataUri

MediaRec(i, p, u, t, s, f, e) ==
    [id |-> i, platform |-> p, userId |-> u, thumbnailUrl |-> t,
     scrapedAt |-> s, exportFlags |-> f, exported |-> e]

\* What a scraper sends for a page item: tiktok_scraper.js:187-199
ScrapedItem(i, t) == MediaRec(i, "TikTok", "alice", t, 1, Undef, "absent")

EmptyStore == <<>>

Present(store, k) == k \in DOMAIN store

Put(store, k, v) == [x \in (DOMAIN store) \cup {k} |-> IF x = k THEN v ELSE store[x]]

Remove(store, k) == [x \in (DOMAIN store) \ {k} |-> store[x]]

----------------------------------------------------------------------------
(* The export-flag ledger: the callback of markAsExported, storage.js:1012-1030 *)

\* item.exportFlags after "if (typeof item.exportFlags === 'undefined') item.exportFlags = 0"
FlagsOrZero(item) == IF item.exportFlags = Undef THEN 0 ELSE item.exportFlags

\* The write-back with "+=" in place of "|=" at line 1026
MarkedItemAdding(item, flags) ==
    LET f0 == FlagsOrZero(item)
        f1 == IF item.exported = "true" THEN BitOr(f0, ALL_EXPORT) ELSE f0
        e1 == IF item.exported = "true" THEN "absent" ELSE item.exported
    IN  [item EXCEPT !.exportFlags = f1 + flags, !.exported = e1]

\* The write-back that drops the legacy field without folding it into the flags
MarkedItemUnfolded(item, flags) ==
    [item EXCEPT !.exportFlags = BitOr(FlagsOrZero(item), flags),
                 !.exported = IF item.exported = "true" THEN "absent" ELSE item.exported]

\* The record written back for a stored record `item` and the flags of the call.
MarkedItem(item, flags) ==
    LET f0 == FlagsOrZero(item)
        f1 == IF item.exported = "true" THEN BitOr(f0, ALL_EXPORT) ELSE f0
        e1 == IF item.exported = "true" THEN "absent" ELSE item.exported
    IN  [item EXCEPT !.exportFlags = BitOr(f1, flags), !.exported = e1]

----------------------------------------------------------------------------
(* Requests of an IndexedDB transaction.  A request is placed at the end of  *)
(* the transaction's queue; the engine runs the queue in order; a success    *)
(* callback may place further requests, which go to the end of the queue.    *)

NoRec == [id |-> 0]

Req(op, key, rec, flags) == [flags |-> flags, op |-> op, key |-> key, rec |-> rec]

PutReq(rec)        == Req("put", rec.id, rec, 0)
AddReq(rec)        == Req("add", rec.id, rec, 0)
DeleteReq(key)     == Req("delete", key, NoRec, 0)
ClearReq           == Req("clear", 0, NoRec, 0)
GetCheckReq(item)  == Req("getCheck", item.id, item, 0)   \* saveAll: store.get(item.id)
GetMarkReq(id, fl) == Req("getMark", id, NoRec, fl)       \* markAsExported: store.get(id)

\* saveAll, request.onsuccess of the existence check (storage.js:128-137):
\* the requests the callback places, given the record the get returned.
SaveAllOnGet(work, item) ==
    IF /\ Present(work, item.id)
       /\ work[item.id].thumbnailUrl # ""
       /\ ~StartsWithData(work[item.id].thumbnailUrl)
    THEN <<>>
    ELSE <<PutReq(item)>>

\* The callback writing a record also when the get found none
MarkOnGetCreating(work, id, flags) ==
    IF Present(work, id) THEN <<PutReq(MarkedItem(work[id], flags))>>
    ELSE <<PutReq(MarkedItem(ScrapedItem(id, ""), flags))>>

\* markAsExported, req.onsuccess (storage.js:1012-1030)
MarkOnGet(work, id, flags) ==
    IF Present(work, id) THEN <<PutReq(MarkedItem(work[id], flags))>> ELSE <<>>

\* The store after request r has run successfully.
Effect(work, r) ==
    CASE r.op = "put"    -> Put(work, r.key, r.rec)
      [] r.op = "add"    -> IF Present(work, r.key) THEN work ELSE Put(work, r.key, r.rec)
      [] r.op = "delete" -> Remove(work, r.key)
      [] r.op = "clear"  -> EmptyStore
      [] OTHER           -> work

\* The requests placed by the callbacks of r.
Callbacks(work, r) ==
    CASE r.op = "getCheck" -> SaveAllOnGet(work, r.rec)
      [] r.op = "getMark"  -> MarkOnGet(work, r.key, r.flags)
      [] OTHER             -> <<>>

\* Every onerror handler preventing the abort, as importData's does
PreventsAbortAlways(r) == TRUE

\* No onerror handler preventing the abort
PreventsAbortNever(r) == FALSE

\* Does the onerror handler of the request call preventDefault(), so that the
\* failed request does not abort the transaction?  Only importData's add()
\* does (storage.js:976-980); the handlers of saveAll (138-141), deleteBatch
\* and markAsExported let the error abort the transaction.
PreventsAbort(r) == r.op = "add"

\* One step of the engine on <<working copy, queue>>.
ExecHead(work, queue) ==
    [work  |-> Effect(work, Head(queue)),
     queue |-> Tail(queue) \o Callbacks(work, Head(queue))]

\* The whole queue run to the end without engine failure.
RECURSIVE RunAll(_, _)
RunAll(work, queue) ==
    IF queue = <<>> THEN work
    ELSE RunAll(ExecHead(work, queue).work, ExecHead(work, queue).queue)

----------------------------------------------------------------------------
(* The requests each operation places synchronously when it is called *)

\* The requests of one forEach pass, in the order they are placed
Placed(reqs) == SubSeq(reqs, 1, Len(reqs))

\* saveAll, storage.js:123-146
SaveAllItemReq(storeName, item) ==
    IF storeName = "media" /\ item.thumbnailUrl # "" /\ StartsWithData(item.thumbnailUrl)
    THEN GetCheckReq(item)
    ELSE PutReq(item)

SaveAllRequests(storeName, items) ==
    Placed([i \in 1..Len(items) |-> SaveAllItemReq(storeName, items[i])])

\* deleteBatch, storage.js:197
DeleteBatchRequests(keys) == Placed([i \in 1..Len(keys) |-> DeleteReq(keys[i])])

\* markAsExported, storage.js:1010-1011
MarkRequests(ids, flags) == Placed([i \in 1..Len(ids) |-> GetMarkReq(ids[i], flags)])

\* importData, storage.js:966-988
ImportItemReq(item, mode) == IF mode = "skip" THEN AddReq(item) ELSE PutReq(item)

ImportRequests(items, mode) ==
    Placed([i \in 1..Len(items) |-> ImportItemReq(items[i], mode)])

\* The result of a whole successful call, as one function of the store.
SaveAllResult(store, items)      == RunAll(store, SaveAllRequests("media", items))
DeleteBatchResult(store, keys)   == RunAll(store, DeleteBatchRequests(keys))
MarkAsExportedResult(store, ids, flags) ==
    IF flags = 0 THEN store ELSE RunAll(store, MarkRequests(ids, flags))

----------------------------------------------------------------------------
(* The query engine, storage.js:725-902.  A criteria object is a record      *)
(* [platform, userId, startDate, endDate, newOnly, excludeMask]; an unset    *)
(* field is "" (strings) or 0 (numbers), which JavaScript treats as falsy.   *)

Criteria(p, u, s, e, n, x) ==
    [platform |-> p, userId |-> u, startDate |-> s, endDate |-> e,
     newOnly |-> n, excludeMask |-> x]

Filters(v) == v # "" /\ v # "ALL"          \* criteria.x && criteria.x !== "ALL"

\* The keys of a store in cursor order (ascending)
RECURSIVE SortedKeys(_)
SortedKeys(K) ==
    IF K = {} THEN <<>>
    ELSE LET k == CHOOSE x \in K : \A y \in K : x <= y
         IN  <<k>> \o SortedKeys(K \ {k})

\* The records under the keys K, in cursor order
CursorOver(store, K) == [i \in 1..Cardinality(K) |-> store[SortedKeys(K)[i]]]

\* store.openCursor(): every record, in key order
FullCursor(store) == CursorOver(store, DOMAIN store)

\* lines 735-743: the index the query opens its cursor on
IndexName(c) ==
    IF Filters(c.platform) THEN "platform"
    ELSE IF Filters(c.userId) THEN "userId"
    ELSE "none"

\* The records the cursor of queryMedia visits, in order: an index cursor over
\* IDBKeyRange.only(v) visits the records whose indexed field equals v, by key.
QueryCursor(store, c) ==
    CASE IndexName(c) = "platform" ->
            CursorOver(store, {k \in DOMAIN store : store[k].platform = c.platform})
      [] IndexName(c) = "userId" ->
            CursorOver(store, {k \in DOMAIN store : store[k].userId = c.userId})
      [] OTHER -> FullCursor(store)

\* lines 778-779, 846-847, 886-887: the flags of a record with the legacy field folded in
EffectiveFlags(m) ==
    LET f == IF m.exportFlags = Undef THEN 0 ELSE m.exportFlags
    IN  IF m.exported = "true" THEN BitOr(f, ALL_EXPORT) ELSE f

\* The newOnly test of a single boolean "exported": any flag excludes the record
NewOnlyOkAnyFlag(m, c) == c.newOnly => EffectiveFlags(m) = 0

\* lines 776-783: the newOnly test
NewOnlyOk(m, c) == c.newOnly => BitAnd(EffectiveFlags(m), c.excludeMask) = 0

\* lines 766-773: the date range test
DateOk(m, c) ==
    /\ c.startDate # 0 => (m.scrapedAt # 0 /\ m.scrapedAt >= c.startDate)
    /\ c.endDate # 0 => (m.scrapedAt # 0 /\ m.scrapedAt <= c.endDate)

\* queryMedia with the manual platform / userId tests left out whenever the
\* cursor runs on an index
QueryMatchTrustingIndex(m, c, indexName) ==
    /\ (Filters(c.platform) /\ indexName = "none") => m.platform = c.platform
    /\ (Filters(c.userId) /\ indexName = "none") => m.userId = c.userId
    /\ DateOk(m, c)
    /\ NewOnlyOk(m, c)

\* getUniqueUsers without the date range test
UsersMatchNoDate(m, c) ==
    /\ m.userId # ""
    /\ Filters(c.platform) => m.platform = c.platform
    /\ NewOnlyOk(m, c)

\* queryMedia, lines 754-783: the value of `match` for cursor record m
QueryMatch(m, c, indexName) ==
    /\ (Filters(c.platform) /\ indexName # "platform") => m.platform = c.platform
    /\ (Filters(c.userId) /\ indexName # "userId") => m.userId = c.userId
    /\ DateOk(m, c)
    /\ NewOnlyOk(m, c)

\* countMedia, lines 880-894: the value of `match`
CountMatch(m, c) ==
    /\ Filters(c.platform) => m.platform = c.platform
    /\ Filters(c.userId) => m.userId = c.userId
    /\ NewOnlyOk(m, c)

\* getUniqueUsers, lines 839-854: is m.userId added to the set?
UsersMatch(m, c) ==
    /\ m.userId # ""
    /\ Filters(c.platform) => m.platform = c.platform
    /\ DateOk(m, c)
    /\ NewOnlyOk(m, c)

\* queryMedia, lines 745-804: the cursor loop with skipped / results / hasMore.
\* `left` is the number of cursor records behind the one at which the loop
\* resolved, which it never requested.
RECURSIVE QueryLoop(_, _, _, _, _, _)
QueryLoop(recs, c, offset, limit, skipped, results) ==
    IF recs = <<>> THEN [items |-> results, hasMore |-> FALSE, left |-> 0]
    ELSE IF ~QueryMatch(Head(recs), c, IndexName(c))
         THEN QueryLoop(Tail(recs), c, offset, limit, skipped, results)
         ELSE IF skipped < offset
              THEN QueryLoop(Tail(recs), c, offset, limit, skipped + 1, results)
              ELSE IF Len(results) < limit
                   THEN QueryLoop(Tail(recs), c, offset, limit, skipped,
                                  Append(results, Head(recs)))
                   ELSE [items |-> results, hasMore |-> TRUE, left |-> Len(recs) - 1]

\* The loop with "skipped <= offset" at line 786: one match too many is skipped
QueryMediaSkipOneMore(store, c, offset, limit) ==
    QueryLoop(QueryCursor(store, c), c, offset + 1, limit, 0, <<>>)

\* The loop going on to the end of the cursor once the page is full
QueryMediaFullScan(store, c, offset, limit) ==
    [QueryLoop(QueryCursor(store, c), c, offset, limit, 0, <<>>) EXCEPT !.left = 0]

QueryMedia(store, c, offset, limit) ==
    QueryLoop(QueryCursor(store, c), c, offset, limit, 0, <<>>)

\* exportStore, storage.js:916-937: the cursor callbacks.  pos is the place
\* of the cursor in the store's records, items.length is `counter`.
RECURSIVE ExportLoop(_, _, _, _, _, _)
ExportLoop(recs, pos, offset, limit, advanced, items) ==
    IF pos > Len(recs) THEN [items |-> items, hasMore |-> FALSE]
    ELSE IF ~advanced /\ offset > 0
         THEN ExportLoop(recs, pos + offset, offset, limit, TRUE, items)
         ELSE IF Len(items) + 1 >= limit
              THEN [items |-> Append(items, recs[pos]), hasMore |-> TRUE]
              ELSE ExportLoop(recs, pos + 1, offset, limit, advanced,
                              Append(items, recs[pos]))

\* The call that never advances the cursor to its offset
ExportStoreNoAdvance(store, offset, limit) ==
    ExportLoop(FullCursor(store), 1, 0, limit, FALSE, <<>>)

\* exportStore(storeName, offset, limit), storage.js:907-941
ExportStore(store, offset, limit) ==
    ExportLoop(FullCursor(store), 1, offset, limit, FALSE, <<>>)

\* countMedia, lines 868-902
CountMedia(store, c) ==
    Cardinality({k \in DOMAIN store : CountMatch(store[k], c)})

\* getUniqueUsers, lines 813-863 (the set; the result is this set sorted)
GetUniqueUsers(store, c) ==
    {store[k].userId : k \in {x \in DOMAIN store : UsersMatch(store[x], c)}}

\* The place of a user name in the order of Array.prototype.sort()
UserRank(u) == CASE u = "" -> 0 [] u = "alice" -> 1 [] u = "bob" -> 2

\* Array.from(users).sort(), line 857
RECURSIVE SortUsers(_)
SortUsers(S) ==
    IF S = {} THEN <<>>
    ELSE LET u == CHOOSE x \in S : \A y \in S : UserRank(x) <= UserRank(y)
         IN  <<u>> \o SortUsers(S \ {u})

\* getUniqueUsers(criteria), lines 813-863: the array it resolves with
UniqueUsers(store, c) == SortUsers(GetUniqueUsers(store, c))

\* getAll, lines 153-163
GetAll(store) == FullCursor(store)

----------------------------------------------------------------------------
(* The state after construction, storage.js:8-17, with empty stores *)

NoTxn ==
    [kind |-> "none", phase |-> "idle", store |-> "none", arg |-> <<>>,
     queue |-> <<>>, work |-> <<>>, applied |-> 0, success |-> 0]

Null == Undef                     \* totalSizeBytes: null

\* No card is loading; nothing is shown yet
NoCard == [phase |-> "idle", fallback |-> 0, shown |-> "none"]

\* isPopulating = false
NoPop == [phase |-> "idle", queue |-> <<>>, processed |-> 0, total |-> 0, resume |-> FALSE]

\* {status, progress, total} of the persisted run-state, background.js:25-30
RunState(status, progress, total) ==
    [status |-> status, progress |-> progress, total |-> total]

\* getPersistedState() when nothing is stored, background.js:16-23
IdleState == RunState("IDLE", 0, 0)

\* The payload of CACHE_PROGRESS_UPDATE, background.js:200-214
Progress(current, total, complete) ==
    [current |-> current, total |-> total, complete |-> complete]

\* Nothing was broadcast yet
NoProgress == Progress(0, 0, FALSE)

\* A service worker that has just been started
FreshWorker == [up |-> TRUE, stops |-> 0]

\* localStorage holds no snapshot
NoCache == [totalVideos |-> 0, cachedAt |-> 0, totalSizeBytes |-> Null]

\* chrome.storage.local holds no detailed snapshot
NoDetailed == [cachedAt |-> 0, totalSizeBytes |-> 0]

\* calculateDetailedStats is not running (_isCalculating = false) and has
\* written no status
NoCalc == [phase |-> "idle", grandTotal |-> 0, processed |-> 0, lastReportedPct |-> -1,
           mediaSize |-> 0, log |-> <<>>]

NoStats == [phase |-> "idle", totalVideos |-> 0, path |-> "none", force |-> FALSE,
            totalSizeBytes |-> Null]

NoQuery == [criteria |-> <<>>, size |-> 0, ids |-> <<>>, flags |-> 0, calls |-> <<>>]

\* No topUser was asked for
NotAsked == [userId |-> "", n |-> -1]

NoPager == [items |-> <<>>, calls |-> 0, done |-> FALSE, count |-> -1,
            asked |-> FALSE, users |-> <<>>, top |-> NotAsked, topSize |-> NotAsked]

NoLedger == [before |-> <<>>, once |-> <<>>, calls |-> 0]

\* No call of the interleaving experiment was issued
NoPair == [live |-> <<>>, issued |-> {}, done |-> {}, together |-> FALSE]

CACHE_TTL == 5     \* this._CACHE_TTL, in minutes
THUMB_TTL == 7     \* TTL = 7 * 24 * 60 * 60 * 1000, in days
ERROR_TTL == 1     \* ERROR_TTL = 24 * 60 * 60 * 1000, in days

InitMachine ==
    /\ db = FALSE
    /\ initPromise = 0
    /\ openReqs = {}
    /\ awaiting = [c \in Callers |-> 0]
    /\ rejected = {}
    /\ media = EmptyStore
    /\ thumbs = EmptyStore
    /\ txn = NoTxn
    /\ dirty = "null"
    /\ cache = NoCache
    /\ stats = NoStats
    /\ now = 1
    /\ detailed = NoDetailed
    /\ calc = NoCalc
    /\ calcRequested = FALSE
    /\ card = NoCard
    /\ pop = NoPop
    /\ cacheState = IdleState
    /\ announced = NoProgress
    /\ worker = FreshWorker
    /\ pair = NoPair

Init ==
    /\ InitMachine
    /\ hasLocalStorage \in BOOLEAN
    /\ qin = NoQuery
    /\ pager = NoPager
    /\ ledger = NoLedger

----------------------------------------------------------------------------
(* init(), storage.js:50-88 *)

\* init() without the check of the in-flight promise (line 54 left out)
InitOpensUncoalesced(handle, promise) == ~handle

\* Does this call of init() issue indexedDB.open?  (lines 51, 54, 56-57)
InitOpens(handle, promise) == ~handle /\ promise = 0

\* A promise not yet in use, to name the promise of a new open attempt.
FreshPromise == CHOOSE n \in 1..MaxOpens : n \notin openReqs /\ \A m \in 1..(n - 1) : m \in openReqs

\* Caller c calls init() (directly or as the first step of any operation).
InitCall(c) ==
    /\ awaiting[c] = 0
    /\ IF db
       THEN UNCHANGED <<initPromise, openReqs, awaiting>>              \* line 51
       ELSE IF InitOpens(db, initPromise)
            THEN /\ Cardinality(openReqs) < MaxOpens
                 /\ initPromise' = FreshPromise
                 /\ openReqs' = openReqs \cup {FreshPromise}
                 /\ awaiting' = [awaiting EXCEPT ![c] = FreshPromise]
            ELSE /\ initPromise # 0                                      \* line 54
                 /\ awaiting' = [awaiting EXCEPT ![c] = initPromise]
                 /\ UNCHANGED <<initPromise, openReqs>>
    /\ rejected' = rejected \ {c}
    /\ UNCHANGED <<db, storeVars, txn, cacheVars, now, hasLocalStorage, pair, thumbVars, detailVars,
                   queryVars>>

\* request.onsuccess, lines 81-84
OpenSuccess(n) ==
    /\ n \in openReqs
    /\ db' = TRUE
    /\ openReqs' = openReqs \ {n}
    /\ awaiting' = [c \in Callers |-> IF awaiting[c] = n THEN 0 ELSE awaiting[c]]
    /\ UNCHANGED <<initPromise, rejected, storeVars, txn, cacheVars, now, hasLocalStorage, pair, thumbVars,
                   detailVars, queryVars>>

\* request.onerror, but line 61 left out: the rejected promise is kept
OpenErrorKeepsPromise(n) ==
    /\ n \in openReqs
    /\ initPromise' = initPromise
    /\ openReqs' = openReqs \ {n}
    /\ awaiting' = [c \in Callers |-> IF awaiting[c] = n THEN 0 ELSE awaiting[c]]
    /\ rejected' = rejected \cup {c \in Callers : awaiting[c] = n}
    /\ UNCHANGED <<db, storeVars, txn, cacheVars, now, hasLocalStorage, pair, thumbVars, detailVars,
                   queryVars>>

\* request.onerror, lines 59-63
OpenError(n) ==
    /\ n \in openReqs
    /\ initPromise' = 0
    /\ openReqs' = openReqs \ {n}
    /\ awaiting' = [c \in Callers |-> IF awaiting[c] = n THEN 0 ELSE awaiting[c]]
    /\ rejected' = rejected \cup {c \in Callers : awaiting[c] = n}
    /\ UNCHANGED <<db, storeVars, txn, cacheVars, now, hasLocalStorage, pair, thumbVars, detailVars,
                   queryVars>>

----------------------------------------------------------------------------
(* Write operations: each opens one read-write transaction, places its      *)
(* requests, and settles its promise when the transaction ends.             *)

StoreOf(name) == IF name = "media" THEN media ELSE thumbs

\* _invalidateCache(), storage.js:22-32: the new value of the dirty flag
InvalidateCache(d, ls) == IF ls THEN "true" ELSE d

Active == txn.phase = "active"

\* The operation may start: init() has returned and no read-write
\* transaction on the stores is running (IndexedDB runs them one at a time).
CanStart == db /\ ~Active

Begin(kind, store, arg, queue) ==
    /\ CanStart
    /\ txn' = [kind |-> kind, phase |-> "active", store |-> store, arg |-> arg,
               queue |-> queue, work |-> StoreOf(store), applied |-> 0, success |-> 0]
    /\ UNCHANGED <<dbVars, storeVars, cacheVars, now, hasLocalStorage, pair, thumbVars, detailVars,
                   queryVars>>

\* save(storeName, data), storage.js:93-106
Save(rec) == Begin("save", "media", <<rec>>, <<PutReq(rec)>>)

\* saveAll(storeName, items), storage.js:111-148
SaveAll(items) == Begin("saveAll", "media", items, SaveAllRequests("media", items))

\* delete(storeName, key), storage.js:167-180
Delete(key) == Begin("delete", "media", <<key>>, <<DeleteReq(key)>>)

\* deleteBatch(storeName, keys), storage.js:185-199
DeleteBatch(keys) == Begin("deleteBatch", "media", keys, DeleteBatchRequests(keys))

\* clearStore(storeName), storage.js:204-217
ClearStore(store) == Begin("clearStore", store, <<>>, <<ClearReq>>)

\* importData(storeName, data, mode), storage.js:947-996
\* importData(storeName, data, mode), storage.js:947-996.  putItem counts a
\* success when it places the put (lines 959-965); in skip mode the count is
\* taken in the onsuccess handler of add (line 975).
ImportData(items, mode) ==
    /\ CanStart
    /\ txn' = [kind |-> "importData", phase |-> "active", store |-> "media",
               arg |-> [items |-> items, mode |-> mode],
               queue |-> ImportRequests(items, mode), work |-> media, applied |-> 0,
               success |-> IF mode = "skip" THEN 0 ELSE Len(items)]
    /\ UNCHANGED <<dbVars, storeVars, cacheVars, now, hasLocalStorage, pair, thumbVars, detailVars,
                   queryVars>>

\* markAsExported(ids, flags) with flags # 0, storage.js:1005-1038
MarkAsExported(ids, flags) ==
    /\ flags # 0
    /\ Begin("markAsExported", "media", [ids |-> ids, flags |-> flags],
             MarkRequests(ids, flags))

\* markAsExported with the guard of line 1003 left out
MarkAsExportedUnguarded(ids) ==
    Begin("markAsExported", "media", [ids |-> ids, flags |-> 0], MarkRequests(ids, 0))

\* markAsExported(ids, flags) with falsy flags returns at once, storage.js:1003
MarkAsExportedNoFlags(ids) ==
    /\ ~Active
    /\ txn' = [NoTxn EXCEPT !.kind = "markAsExported", !.phase = "resolved"]
    /\ UNCHANGED <<dbVars, storeVars, cacheVars, now, hasLocalStorage, pair, thumbVars, detailVars,
                   queryVars>>

\* saveThumbnail(data) taking whatever the recompression yields
StoredBlobUnchecked(blob, compressed) ==
    IF blob > 0 /\ compressed > 0 THEN compressed ELSE blob

\* saveThumbnail(data), storage.js:234-260: the blob stored is the result of
\* compressImage when that is strictly smaller (size 0 stands for blob = null;
\* compressed = 0 stands for a compression that threw).
StoredBlob(blob, compressed) ==
    IF blob > 0 /\ compressed > 0 /\ compressed < blob THEN compressed ELSE blob

SaveThumbnail(data, compressed) ==
    LET entry == [data EXCEPT !.blob = StoredBlob(data.blob, compressed)]
    IN  Begin("saveThumbnail", "thumbnails", <<entry>>,
              <<Req("put", entry.url, entry, 0)>>)

\* deleteThumbnail(url), storage.js:303-316
DeleteThumbnail(url) == Begin("deleteThumbnail", "thumbnails", <<url>>, <<DeleteReq(url)>>)

Settled(t, phase) ==
    [kind |-> t.kind, phase |-> phase, store |-> t.store, arg |-> <<>>,
     queue |-> <<>>, work |-> <<>>,
     applied |-> IF phase = "rejected" /\ t.applied > 0 THEN 1 ELSE 0,
     success |-> IF phase = "resolved" THEN t.success ELSE 0]

\* store.add(item) on a key that is present fails with a ConstraintError
Collides(work, r) == r.op = "add" /\ Present(work, r.key)

\* The engine runs the next request of the transaction; its callbacks run
\* (the onsuccess handler of importData's add counts a success).
ExecRequest ==
    /\ Active
    /\ txn.queue # <<>>
    /\ ~Collides(txn.work, Head(txn.queue))
    /\ txn' = [txn EXCEPT !.work = ExecHead(txn.work, txn.queue).work,
                          !.queue = ExecHead(txn.work, txn.queue).queue,
                          !.applied = txn.applied + 1,
                          !.success = @ + (IF Head(txn.queue).op = "add" THEN 1 ELSE 0)]
    /\ UNCHANGED <<dbVars, storeVars, cacheVars, now, hasLocalStorage, pair, thumbVars, detailVars,
                   queryVars>>

\* The engine fails the next request.  Unless the request's onerror handler
\* prevents it, the error aborts the transaction: its writes are rolled back
\* and transaction.onerror / request.onerror rejects the promise.
FailRequest ==
    /\ Active
    /\ txn.queue # <<>>
    /\ IF PreventsAbort(Head(txn.queue))
       THEN txn' = [txn EXCEPT !.queue = Tail(txn.queue)]
       ELSE txn' = Settled(txn, "rejected")
    /\ UNCHANGED <<dbVars, storeVars, cacheVars, now, hasLocalStorage, pair, thumbVars, detailVars,
                   queryVars>>

\* The add of importData meets a stored key: the request fails and its
\* onerror handler runs (storage.js:976-980)
CollideRequest ==
    /\ Active
    /\ txn.queue # <<>>
    /\ Collides(txn.work, Head(txn.queue))
    /\ IF PreventsAbort(Head(txn.queue))
       THEN txn' = [txn EXCEPT !.queue = Tail(txn.queue)]
       ELSE txn' = Settled(txn, "rejected")
    /\ UNCHANGED <<dbVars, storeVars, cacheVars, now, hasLocalStorage, pair, thumbVars, detailVars,
                   queryVars>>

\* saveThumbnail resolving without the call of line 255
InvalidatesButThumbnail(kind) ==
    kind \in {"save", "saveAll", "delete", "deleteBatch", "clearStore", "importData",
              "markAsExported", "deleteThumbnail"}

\* Does the success handler of the operation call _invalidateCache()?
\* (storage.js:101, 118, 175, 192, 212, 255, 311, 991, 1034)
Invalidates(kind) ==
    kind \in {"save", "saveAll", "delete", "deleteBatch", "clearStore", "importData",
              "markAsExported", "saveThumbnail", "deleteThumbnail"}

\* No request is left: the transaction commits, oncomplete / onsuccess calls
\* _invalidateCache() and resolves the promise.  ls: does the context in which
\* the operation runs have localStorage?
CommitIn(ls) ==
    /\ Active
    /\ txn.queue = <<>>
    /\ media' = IF txn.store = "media" THEN txn.work ELSE media
    /\ thumbs' = IF txn.store = "thumbnails" THEN txn.work ELSE thumbs
    /\ dirty' = IF Invalidates(txn.kind) THEN InvalidateCache(dirty, ls)
                 ELSE dirty
    /\ txn' = Settled(txn, "resolved")
    /\ UNCHANGED <<dbVars, cache, stats, now, hasLocalStorage, pair, thumbVars, detailVars, queryVars>>

Commit == CommitIn(hasLocalStorage)

\* A write of the service worker commits: localStorage is not defined there,
\* so the setItem of _invalidateCache throws and is swallowed (storage.js:23-27).
BackgroundCommit == CommitIn(FALSE)

----------------------------------------------------------------------------
(* Read operations, which open a read-only transaction and change nothing *)

ReadOps == {"getAll", "getThumbnail", "queryMedia", "countMedia", "getUniqueUsers",
            "exportStore"}

WriteOps == {"save", "saveAll", "delete", "deleteBatch", "clearStore", "importData",
             "markAsExported", "saveThumbnail", "deleteThumbnail"}

Read(op) ==
    /\ CanStart
    /\ txn' = [NoTxn EXCEPT !.kind = op, !.phase = "resolved", !.store = "media"]
    /\ UNCHANGED <<dbVars, storeVars, cacheVars, now, hasLocalStorage, pair, thumbVars, detailVars,
                   queryVars>>

----------------------------------------------------------------------------
(* getStorageUsage(forceRefresh), storage.js:323-517 *)

\* The cache check with "<=" in place of "<" at line 334
CacheUsableInclusive(force, d, c, t, ls) ==
    /\ ~force
    /\ ls
    /\ d = "false"
    /\ c # NoCache
    /\ c.cachedAt # 0
    /\ t - c.cachedAt <= CACHE_TTL

\* Step 1, lines 327-342: is the cached snapshot returned?
CacheUsable(force, d, c, t, ls) ==
    /\ ~force
    /\ ls
    /\ d = "false"
    /\ c # NoCache
    /\ c.cachedAt # 0
    /\ t - c.cachedAt < CACHE_TTL

\* The call returns the cached snapshot (line 335).
StatsFromCache(force) ==
    /\ db
    /\ stats.phase # "scanned"
    /\ CacheUsable(force, dirty, cache, now, hasLocalStorage)
    /\ stats' = [phase |-> "returned", totalVideos |-> cache.totalVideos,
                 path |-> "cache", force |-> force,
                 totalSizeBytes |-> cache.totalSizeBytes]
    /\ UNCHANGED <<dbVars, storeVars, txn, dirty, cache, now, hasLocalStorage, pair, thumbVars,
                   detailVars, queryVars>>

\* Steps 2-3, lines 344-474: the read-only transaction over both stores;
\* totalVideos is mediaStore.count() (lines 367, 457).
StatsScan(force) ==
    /\ CanStart
    /\ stats.phase # "scanned"
    /\ ~CacheUsable(force, dirty, cache, now, hasLocalStorage)
    /\ stats' = [phase |-> "scanned", totalVideos |-> Cardinality(DOMAIN media),
                 path |-> "scan", force |-> force, totalSizeBytes |-> Null]
    /\ UNCHANGED <<dbVars, storeVars, txn, dirty, cache, now, hasLocalStorage, pair, thumbVars,
                   detailVars, queryVars>>

\* Step 4, line 483: is there a detailed snapshot younger than the TTL?
DetailedFresh(d, t) ==
    /\ d # NoDetailed
    /\ d.cachedAt # 0
    /\ t - d.cachedAt < CACHE_TTL

\* Step 4, lines 483-487 and 452: totalSizeBytes of the result
MergedSize(d, t) == IF DetailedFresh(d, t) THEN d.totalSizeBytes ELSE Null

\* Steps 4-5, lines 476-516: after awaiting chrome.storage.local.get the
\* detailed sizes are merged or a CALCULATE_STATS message is sent; then the
\* result is persisted and the dirty flag cleared (when localStorage exists).
StatsPersist ==
    /\ stats.phase = "scanned"
    /\ IF hasLocalStorage
       THEN /\ cache' = [totalVideos |-> stats.totalVideos, cachedAt |-> now,
                         totalSizeBytes |-> MergedSize(detailed, now)]
            /\ dirty' = "false"
       ELSE UNCHANGED <<cache, dirty>>
    /\ stats' = [stats EXCEPT !.phase = "returned",
                              !.totalSizeBytes = MergedSize(detailed, now)]
    /\ calcRequested' = (calcRequested \/ ~DetailedFresh(detailed, now))
    /\ UNCHANGED <<dbVars, storeVars, txn, now, hasLocalStorage, pair, thumbVars, detailed, calc, queryVars>>

\* Time passes: by just under the TTL, or by the TTL.
Tick(d) ==
    /\ now + d <= MaxNow
    /\ now' = now + d
    /\ UNCHANGED <<dbVars, storeVars, txn, cacheVars, hasLocalStorage, pair, thumbVars, detailVars,
                   queryVars>>

----------------------------------------------------------------------------
(* Inputs of the storage machine *)

ThumbUrls == {"", DataUri, HttpUrl}

PageItems == {ScrapedItem(i, t) : i \in Ids, t \in ThumbUrls}

\* A record written by an older version, carrying the legacy field.
LegacyItem(i) == MediaRec(i, "TikTok", "alice", HttpUrl, 1, Undef, "true")

ImportItems == {LegacyItem(i) : i \in Ids}

ImportModes == {"overwrite", "merge", "skip"}

SeqsUpTo(S, n) == UNION {[1..k -> S] : k \in 1..n}

\* What the recompression of a blob yields: a blob of that size; 0 stands for
\* a compression that threw.  compressImage returns its input when the
\* feature is missing, the blob is no image or the encoding failed.
Compressions == 0..3

ThumbEntries ==
    {[url |-> HttpUrl, blob |-> 2, ttl |-> MaxNow, error |-> FALSE],
     [url |-> HttpUrl, blob |-> 0, ttl |-> 1, error |-> TRUE]}

InitStep ==
    \/ \E c \in Callers : InitCall(c)
    \/ \E n \in 1..MaxOpens : OpenSuccess(n)
    \/ \E n \in 1..MaxOpens : OpenError(n)

WriteStep ==
    \/ \E rec \in PageItems : Save(rec)
    \/ \E items \in SeqsUpTo(PageItems, MaxBatch) : SaveAll(items)
    \/ \E k \in Ids : Delete(k)
    \/ \E keys \in SeqsUpTo(Ids, MaxBatch) : DeleteBatch(keys)
    \/ \E st \in {"media", "thumbnails"} : ClearStore(st)
    \/ \E items \in SeqsUpTo(ImportItems, MaxBatch), mode \in ImportModes :
          ImportData(items, mode)
    \/ \E ids \in SeqsUpTo(Ids, MaxBatch) : MarkAsExported(ids, URLS)
    \/ \E ids \in SeqsUpTo(Ids, MaxBatch) : MarkAsExportedNoFlags(ids)
    \/ \E data \in ThumbEntries, c \in Compressions : SaveThumbnail(data, c)
    \/ DeleteThumbnail(HttpUrl)

EngineStep ==
    \/ ExecRequest
    \/ CollideRequest
    \/ FailRequest
    \/ Commit

ReadStep == \E op \in ReadOps : Read(op)

Next ==
    \/ InitStep
    \/ WriteStep
    \/ EngineStep
    \/ ReadStep

Spec == Init /\ [][Next]_vars

----------------------------------------------------------------------------
(* The statistics machine: the same operations on the media store, with     *)
(* getStorageUsage and the clock; the records differ only in what the       *)
(* statistics read (their number).                                          *)

StatsItems == {ScrapedItem(i, HttpUrl) : i \in Ids}

StatsWriteStep ==
    \/ \E rec \in StatsItems : Save(rec)
    \/ \E items \in SeqsUpTo(StatsItems, MaxBatch) : SaveAll(items)
    \/ \E k \in Ids : Delete(k)
    \/ \E keys \in SeqsUpTo(Ids, MaxBatch) : DeleteBatch(keys)
    \/ ClearStore("media")
    \/ \E items \in SeqsUpTo(ImportItems, MaxBatch) : ImportData(items, "skip")
    \/ \E ids \in SeqsUpTo(Ids, MaxBatch) : MarkAsExported(ids, URLS)

StatsStep ==
    \/ \E force \in BOOLEAN : StatsFromCache(force)
    \/ \E force \in BOOLEAN : StatsScan(force)
    \/ StatsPersist

TickStep == \E d \in {CACHE_TTL - 1, CACHE_TTL} : Tick(d)

NextStats ==
    \/ \E c \in Callers : InitCall(c)
    \/ \E n \in 1..MaxOpens : OpenSuccess(n)
    \/ StatsWriteStep
    \/ EngineStep
    \/ StatsStep
    \/ TickStep

SpecStats == Init /\ [][NextStats]_vars

----------------------------------------------------------------------------
(* The query experiment: a fixed media collection, one criteria object and  *)
(* one page size; the caller pages through queryMedia the way               *)
(* backupToFolder does (dashboard.js:1056-1064) and calls countMedia.       *)

QueryRecs(i) ==
    {MediaRec(i, "TikTok", "alice", HttpUrl, 1, Undef, "absent"),
     MediaRec(i, "TikTok", "bob", HttpUrl, 2, URLS, "absent"),
     MediaRec(i, "Insta", "alice", DataUri, 0, Undef, "true"),
     MediaRec(i, "Insta", "", HttpUrl, 2, CSV, "absent")}

\* Every store that holds, under some of the keys K, a record of recs[key]
RECURSIVE StoresOver(_, _)
StoresOver(K, recs) ==
    IF K = {} THEN {EmptyStore}
    ELSE LET k == CHOOSE x \in K : \A y \in K : x >= y
             rest == StoresOver(K \ {k}, recs)
         IN  rest \cup {Put(st, k, r) : st \in rest, r \in recs[k]}

QueryCollections == StoresOver(QueryIds, [i \in QueryIds |-> QueryRecs(i)])

\* Three records of alice and two of bob, all on TikTok
AliceBobStore ==
    [i \in 1..5 |-> MediaRec(i, "TikTok", IF i \in {1, 3, 4} THEN "alice" ELSE "bob",
                             HttpUrl, 1, Undef, "absent")]

CriteriaSet ==
    {Criteria(p, u, s, e, n[1], n[2]) :
        p \in {"ALL", "TikTok"}, u \in {"", "alice"}, s \in {0, 2}, e \in {0, 1},
        n \in {<<FALSE, 0>>, <<TRUE, URLS>>, <<TRUE, CSV>>}}

\* The machine with the database open and nothing in progress, the service
\* worker being w
OpenedIn(thumbnails, w) ==
    /\ db = TRUE
    /\ initPromise = 1
    /\ openReqs = {}
    /\ awaiting = [c \in Callers |-> 0]
    /\ rejected = {}
    /\ thumbs \in thumbnails
    /\ txn = NoTxn
    /\ dirty = "null"
    /\ cache = NoCache
    /\ stats = NoStats
    /\ now = 1
    /\ detailed = NoDetailed
    /\ calc = NoCalc
    /\ calcRequested = FALSE
    /\ card = NoCard
    /\ pop = NoPop
    /\ cacheState = IdleState
    /\ announced = NoProgress
    /\ worker = w
    /\ pair = NoPair
    /\ hasLocalStorage = TRUE

\* The same with a service worker that has just been started
OpenedWith(thumbnails) == OpenedIn(thumbnails, FreshWorker)

\* The same with an empty thumbnails store
Opened == OpenedWith({EmptyStore})

InitQuery ==
    /\ Opened
    /\ media \in QueryCollections \cup {AliceBobStore}
    /\ qin \in {[NoQuery EXCEPT !.criteria = c, !.size = n] :
                   c \in CriteriaSet, n \in 1..MaxPage}
    /\ pager = NoPager
    /\ ledger = NoLedger

\* One iteration of the paging loop: queryMedia(criteria, offset, P), offset += P
PageCall ==
    /\ ~pager.done
    /\ LET r == QueryMedia(media, qin.criteria, pager.calls * qin.size, qin.size)
       IN  pager' = [pager EXCEPT !.items = pager.items \o r.items,
                                  !.calls = pager.calls + 1,
                                  !.done = ~r.hasMore]
    /\ UNCHANGED <<dbVars, storeVars, txn, cacheVars, now, hasLocalStorage, pair, thumbVars, detailVars,
                   qin, ledger>>

\* countMedia(criteria)
CountCall ==
    /\ pager.count = -1
    /\ pager' = [pager EXCEPT !.count = CountMedia(media, qin.criteria)]
    /\ UNCHANGED <<dbVars, storeVars, txn, cacheVars, now, hasLocalStorage, pair, thumbVars, detailVars,
                   qin, ledger>>

\* getUniqueUsers(criteria)
UsersCall ==
    /\ ~pager.asked
    /\ pager' = [pager EXCEPT !.asked = TRUE, !.users = UniqueUsers(media, qin.criteria)]
    /\ UNCHANGED <<dbVars, storeVars, txn, cacheVars, now, hasLocalStorage, pair, thumbVars, detailVars,
                   qin, ledger>>

NextQuery ==
    \/ PageCall
    \/ CountCall
    \/ UsersCall

SpecQuery == InitQuery /\ [][NextQuery]_vars

----------------------------------------------------------------------------
(* The ledger experiment: a fixed media collection, a list of ids and a     *)
(* flags value; markAsExported(ids, flags) is called, and called again.     *)

LedgerRecs(i) ==
    {MediaRec(i, "TikTok", "alice", HttpUrl, 1, Undef, "absent"),
     MediaRec(i, "TikTok", "alice", HttpUrl, 1, 0, "true"),
     MediaRec(i, "TikTok", "bob", HttpUrl, 2, URLS, "absent"),
     MediaRec(i, "Insta", "bob", DataUri, 2, VIEWED, "true"),
     MediaRec(i, "Insta", "", HttpUrl, 0, Undef, "false")}

LedgerCollections == StoresOver(Ids, [i \in Ids |-> LedgerRecs(i)])

LedgerFlags == ChannelFlags \cup {VIEWED, ALL_EXPORT}

InitLedger ==
    /\ Opened
    /\ media \in LedgerCollections
    /\ qin \in {[NoQuery EXCEPT !.ids = ids, !.flags = f] :
                   ids \in SeqsUpTo(Ids, MaxBatch), f \in LedgerFlags}
    /\ pager = NoPager
    /\ ledger = [before |-> media, once |-> <<>>, calls |-> 0]

\* A call of markAsExported(ids, flags) that runs to completion
MarkCall ==
    /\ ledger.calls < 2
    /\ media' = MarkAsExportedResult(media, qin.ids, qin.flags)
    /\ ledger' = [ledger EXCEPT !.calls = ledger.calls + 1,
                                !.once = IF ledger.calls = 0 THEN media' ELSE ledger.once]
    /\ UNCHANGED <<dbVars, thumbs, txn, cacheVars, now, hasLocalStorage, pair, thumbVars, detailVars,
                   qin, pager>>

NextLedger == MarkCall

SpecLedger == InitLedger /\ [][NextLedger]_vars

----------------------------------------------------------------------------
(* calculateDetailedStats(), storage.js:530-719.  Sizes are in abstract     *)
(* units; the two scans each run in their own read-only transaction, which  *)
(* sees the store as committed when the transaction starts.                 *)

Status(state, progress) == [state |-> state, progress |-> progress]

\* line 605: Math.floor((processed / grandTotal) * 100)
Pct(processed, grandTotal) == (processed * 100) \div grandTotal

\* line 606: Math.floor(pct / 5) * 5
Bucket(pct) == (pct \div 5) * 5

\* reportProgress with ">=" in place of ">" at line 607
ReportProgressRepeating(c) ==
    IF Bucket(Pct(c.processed, c.grandTotal)) >= c.lastReportedPct
    THEN [c EXCEPT !.lastReportedPct = Bucket(Pct(c.processed, c.grandTotal)),
                   !.log = Append(c.log, Status("CALCULATING",
                                                Bucket(Pct(c.processed, c.grandTotal))))]
    ELSE c

\* reportProgress, lines 604-612
ReportProgress(c) ==
    IF Bucket(Pct(c.processed, c.grandTotal)) > c.lastReportedPct
    THEN [c EXCEPT !.lastReportedPct = Bucket(Pct(c.processed, c.grandTotal)),
                   !.log = Append(c.log, Status("CALCULATING",
                                                Bucket(Pct(c.processed, c.grandTotal))))]
    ELSE c

\* estimateObjectSize(m) of a media record, lines 554-578: a record with a
\* thumbnail URL is larger than one without
MediaItemSize(m) == IF m.thumbnailUrl = "" THEN 1 ELSE 2

\* line 667: t.blob && t.blob.size ? t.blob.size : estimateObjectSize(t)
ThumbItemSize(t) == IF t.blob > 0 THEN t.blob ELSE 1

\* The sizes of the records a cursor over the media store visits
MediaSizes(store) ==
    [i \in 1..Cardinality(DOMAIN store) |-> MediaItemSize(FullCursor(store)[i])]

\* The sizes of the entries a cursor over the thumbnails store visits
RECURSIVE ThumbSizes(_, _)
ThumbSizes(store, K) ==
    IF K = {} THEN <<>>
    ELSE LET k == CHOOSE x \in K : TRUE
         IN  <<ThumbItemSize(store[k])>> \o ThumbSizes(store, K \ {k})

\* The cursor loop of a scan, lines 627-650 and 662-679: per record the size
\* is added, processed is incremented and reportProgress() is called
RECURSIVE ScanItems(_, _)
ScanItems(c, sizes) ==
    IF sizes = <<>> THEN c
    ELSE ScanItems(ReportProgress([c EXCEPT !.mediaSize = @ + Head(sizes),
                                            !.processed = @ + 1]),
                   Tail(sizes))

\* lines 531-616: the guard, the counts, and either the empty result or the
\* initial status
CalcStart ==
    /\ CanStart
    /\ calc.phase = "idle"
    /\ LET grandTotal == Cardinality(DOMAIN media) + Cardinality(DOMAIN thumbs)
       IN  IF grandTotal = 0
           THEN /\ detailed' = [cachedAt |-> now, totalSizeBytes |-> 0]
                /\ calc' = [NoCalc EXCEPT !.log = <<Status("COMPLETE", 100)>>]
           ELSE /\ calc' = [NoCalc EXCEPT !.phase = "media", !.grandTotal = grandTotal,
                                          !.log = <<Status("CALCULATING", 0)>>]
                /\ UNCHANGED detailed
    /\ UNCHANGED <<dbVars, storeVars, txn, cacheVars, now, hasLocalStorage, pair, thumbVars, calcRequested,
                   queryVars>>

\* Phase 1, lines 618-652
CalcScanMedia ==
    /\ calc.phase = "media"
    /\ ~Active
    /\ calc' = [ScanItems(calc, MediaSizes(media)) EXCEPT !.phase = "thumbs"]
    /\ UNCHANGED <<dbVars, storeVars, txn, cacheVars, now, hasLocalStorage, pair, thumbVars, detailed,
                   calcRequested, queryVars>>

\* Phases 2-4, lines 654-711: the thumbnail scan, then the snapshot and the
\* status COMPLETE are written together; finally releases the guard
CalcScanThumbs ==
    /\ calc.phase = "thumbs"
    /\ ~Active
    /\ LET c == ScanItems(calc, ThumbSizes(thumbs, DOMAIN thumbs))
       IN  /\ detailed' = [cachedAt |-> now, totalSizeBytes |-> c.mediaSize]
           /\ calc' = [c EXCEPT !.phase = "idle",
                                !.log = Append(c.log, Status("COMPLETE", 100))]
    /\ UNCHANGED <<dbVars, storeVars, txn, cacheVars, now, hasLocalStorage, pair, thumbVars, calcRequested,
                   queryVars>>

\* init() or a count request fails (lines 543, 581-589): the catch writes
\* ERROR before any CALCULATING status
CalcCountError ==
    /\ CanStart
    /\ calc.phase = "idle"
    /\ calc' = [NoCalc EXCEPT !.log = <<Status("ERROR", 0)>>]
    /\ UNCHANGED <<dbVars, storeVars, txn, cacheVars, now, hasLocalStorage, pair, thumbVars, detailed,
                   calcRequested, queryVars>>

\* The catch without the rejection ending the scan: ERROR is written and the
\* run carries on
CalcErrorContinuing ==
    /\ calc.phase \in {"media", "thumbs"}
    /\ ~\E i \in 1..Len(calc.log) : calc.log[i].state = "ERROR"
    /\ calc' = [calc EXCEPT !.log = Append(calc.log, Status("ERROR", 0))]
    /\ UNCHANGED <<dbVars, storeVars, txn, cacheVars, now, hasLocalStorage, pair, thumbVars, detailed,
                   calcRequested, queryVars>>

\* A cursor request fails: the catch of lines 712-718 writes ERROR
CalcError ==
    /\ calc.phase \in {"media", "thumbs"}
    /\ calc' = [calc EXCEPT !.phase = "idle", !.log = Append(calc.log, Status("ERROR", 0))]
    /\ UNCHANGED <<dbVars, storeVars, txn, cacheVars, now, hasLocalStorage, pair, thumbVars, detailed,
                   calcRequested, queryVars>>

\* The background context receives CALCULATE_STATS: handleMessage has no
\* branch for this action and falls through (background.js:215-247)
HandleCalculateStats ==
    /\ calcRequested
    /\ calcRequested' = FALSE
    /\ UNCHANGED <<dbVars, storeVars, txn, cacheVars, now, hasLocalStorage, pair, thumbVars, detailed, calc,
                   queryVars>>

CalcStep ==
    \/ CalcStart
    \/ CalcCountError
    \/ CalcScanMedia
    \/ CalcScanThumbs
    \/ CalcError

\* The thumbnails store with one cached entry
DetailThumbs == {Put(EmptyStore, HttpUrl, [url |-> HttpUrl, blob |-> 2,
                                           ttl |-> MaxNow, error |-> FALSE])}

\* Writes while statistics are read: one record and one thumbnail entry
DetailWriteStep ==
    \/ Save(ScrapedItem(1, HttpUrl))
    \/ \E data \in DetailThumbs : SaveThumbnail(data[HttpUrl], 0)
    \/ ExecRequest
    \/ Commit

DetailStatsStep ==
    \/ StatsFromCache(FALSE)
    \/ StatsScan(FALSE)
    \/ StatsPersist

InitDetail ==
    /\ Opened
    /\ media = EmptyStore
    /\ qin = NoQuery
    /\ pager = NoPager
    /\ ledger = NoLedger

NextDetail ==
    \/ DetailWriteStep
    \/ DetailStatsStep
    \/ Tick(CACHE_TTL)
    \/ CalcStep
    \/ HandleCalculateStats

SpecDetail == InitDetail /\ [][NextDetail]_vars

----------------------------------------------------------------------------
(* calculateDetailedStats next to writers: records and thumbnail entries    *)
(* are stored and deleted while a run is in progress.                       *)

CalcWriteStep ==
    \/ \E rec \in StatsItems : Save(rec)
    \/ \E k \in Ids : Delete(k)
    \/ \E data \in ThumbEntries : SaveThumbnail(data, 0)
    \/ DeleteThumbnail(HttpUrl)
    \/ ExecRequest
    \/ FailRequest
    \/ Commit

InitCalc ==
    /\ OpenedWith({EmptyStore} \cup DetailThumbs)
    /\ media \in StoresOver(Ids, [i \in Ids |-> {ScrapedItem(i, HttpUrl)}])
    /\ qin = NoQuery
    /\ pager = NoPager
    /\ ledger = NoLedger

NextCalc ==
    \/ CalcWriteStep
    \/ CalcStep

SpecCalc == InitCalc /\ [][NextCalc]_vars

----------------------------------------------------------------------------
(* The thumbnail cache and its two consumers: the dashboard card loader     *)
(* (dashboard.js:586-698, and the same code in the videos module) and the   *)
(* background cache population (background.js:62-198).  In this part the    *)
(* clock counts days.                                                       *)

\* getThumbnail(url) resolves undefined: no entry is stored
NoEntry == [url |-> "", blob |-> 0, ttl |-> 0, error |-> FALSE]

\* getThumbnail(url), storage.js:222-232
GetThumbnail(url) == IF Present(thumbs, url) THEN thumbs[url] ELSE NoEntry

\* {url, blob, ttl: Date.now() + TTL, error: false}
SuccessEntry(url, blob, t) ==
    [url |-> url, blob |-> blob, ttl |-> t + THUMB_TTL, error |-> FALSE]

\* The negative entry given the TTL of a success entry
ErrorEntryLongLived(url, t) ==
    [url |-> url, blob |-> 0, ttl |-> t + THUMB_TTL, error |-> TRUE]

\* {url, blob: null, ttl: Date.now() + ERROR_TTL, error: true}
ErrorEntry(url, t) == [url |-> url, blob |-> 0, ttl |-> t + ERROR_TTL, error |-> TRUE]

\* saveThumbnail(data), storage.js:234-260: the transaction it opens
ThumbnailTxn(data, compressed) ==
    LET entry == [data EXCEPT !.blob = StoredBlob(data.blob, compressed)]
    IN  [kind |-> "saveThumbnail", phase |-> "active", store |-> "thumbnails",
         arg |-> <<entry>>, queue |-> <<Req("put", entry.url, entry, 0)>>,
         work |-> thumbs, applied |-> 0, success |-> 0]

\* The branch loadThumbnailForCard takes on what getThumbnail returned,
\* dashboard.js:611-639
CardDecision(cached, t) ==
    IF cached = NoEntry THEN "miss"
    ELSE IF cached.error /\ t < cached.ttl THEN "negative"
    ELSE IF t < cached.ttl THEN (IF cached.blob > 0 THEN "hit" ELSE "invalid")
    ELSE "expired"

\* loadThumbnailForCard(card, media), dashboard.js:586-645
LoadThumbnailForCard(url) ==
    /\ CanStart
    /\ card.phase = "idle"
    /\ card' = IF url = "" THEN [NoCard EXCEPT !.shown = "placeholder"]
               ELSE IF StartsWithData(url) THEN [NoCard EXCEPT !.shown = "image"]
               ELSE LET cached == GetThumbnail(url)
                        d == CardDecision(cached, now)
                    IN  CASE d = "miss" ->
                               [phase |-> "fetching", fallback |-> 0, shown |-> card.shown]
                          [] d = "expired" ->
                               [phase |-> "fetching", fallback |-> cached.blob,
                                shown |-> card.shown]
                          [] d = "hit" -> [NoCard EXCEPT !.shown = "image"]
                          [] OTHER -> [NoCard EXCEPT !.shown = "placeholder"]
    /\ UNCHANGED <<dbVars, storeVars, txn, cacheVars, now, hasLocalStorage, pair, detailVars,
                   pop, bgVars, queryVars>>

\* fetchAndCache(url, thumbDiv, fallbackBlob) of the dashboard, the fetch
\* succeeds: dashboard.js:651-668
CardFetchOk(blob, compressed) ==
    /\ card.phase = "fetching"
    /\ CanStart
    /\ txn' = ThumbnailTxn(SuccessEntry(HttpUrl, blob, now), compressed)
    /\ card' = [NoCard EXCEPT !.shown = "image"]
    /\ UNCHANGED <<dbVars, storeVars, cacheVars, now, hasLocalStorage, pair, detailVars,
                   pop, bgVars, queryVars>>

\* The fetch fails: the old blob with a new TTL, or a negative entry,
\* dashboard.js:669-697
CardFetchFail(compressed) ==
    /\ card.phase = "fetching"
    /\ CanStart
    /\ IF card.fallback > 0
       THEN /\ txn' = ThumbnailTxn(SuccessEntry(HttpUrl, card.fallback, now), compressed)
            /\ card' = [NoCard EXCEPT !.shown = "image"]
       ELSE /\ txn' = ThumbnailTxn(ErrorEntry(HttpUrl, now), 0)
            /\ card' = [NoCard EXCEPT !.shown = "placeholder"]
    /\ UNCHANGED <<dbVars, storeVars, cacheVars, now, hasLocalStorage, pair, detailVars,
                   pop, bgVars, queryVars>>

\* needsCache, background.js:95-102
NeedsCache(cached, t) ==
    IF cached = NoEntry THEN TRUE
    ELSE IF cached.error /\ t < cached.ttl THEN FALSE
    ELSE t >= cached.ttl

\* itemsToProcess, background.js:85-105: the thumbnail URLs of the records
\* that need caching, in the order of getAll("media")
ItemsToProcess ==
    LET Wanted(r) == /\ ~(r.thumbnailUrl = "" \/ StartsWithData(r.thumbnailUrl))
                     /\ NeedsCache(GetThumbnail(r.thumbnailUrl), now)
        items == SelectSeq(GetAll(media), Wanted)
    IN  [i \in 1..Len(items) |-> items[i].thumbnailUrl]

\* startCachePopulation() past the isPopulating guard, background.js:69-135:
\* the scan, the persisted state, and the empty run that completes at once
Scan(resume) ==
    LET items == ItemsToProcess
        total == Len(items)
    IN  /\ CanStart
        /\ cacheState' = IF total > 0 THEN RunState("RUNNING", 0, total) ELSE IdleState
        /\ announced' = IF total > 0 THEN announced ELSE Progress(0, 0, TRUE)
        /\ pop' = IF total > 0
                  THEN [phase |-> "running", queue |-> items, processed |-> 0,
                        total |-> total, resume |-> resume]
                  ELSE [NoPop EXCEPT !.resume = resume]
        /\ UNCHANGED <<dbVars, storeVars, txn, cacheVars, now, hasLocalStorage, pair, detailVars,
                       card, worker, queryVars>>

\* startCachePopulation() without the isPopulating guard of lines 63-67
StartCachePopulationUnguarded ==
    /\ worker.up
    /\ Scan(pop.resume)

\* startCachePopulation(), background.js:62-149; a call while a run is in
\* progress returns at once (lines 63-67)
StartCachePopulation ==
    /\ worker.up
    /\ pop.phase = "idle"
    /\ Scan(pop.resume)

\* checkAndResume(), background.js:33-49: both branches call
\* startCachePopulation(true), which returns at once when a run is in progress
CheckAndResume ==
    /\ worker.up
    /\ pop.resume
    /\ IF pop.phase = "idle"
       THEN Scan(FALSE)
       ELSE /\ pop' = [pop EXCEPT !.resume = FALSE]
            /\ UNCHANGED <<dbVars, storeVars, txn, cacheVars, now, hasLocalStorage, pair, detailVars,
                           card, bgVars, queryVars>>

\* onStartup / onInstalled without the call of checkAndResume
BackgroundStartIdle ==
    /\ ~worker.up
    /\ worker' = [worker EXCEPT !.up = TRUE]
    /\ pop' = NoPop
    /\ UNCHANGED <<dbVars, storeVars, txn, cacheVars, now, hasLocalStorage, pair, detailVars,
                   card, cacheState, announced, queryVars>>

\* The service worker starts and chrome.runtime.onStartup / onInstalled
\* fires: the listeners call checkAndResume(), background.js:52-59
BackgroundStart ==
    /\ ~worker.up
    /\ worker' = [worker EXCEPT !.up = TRUE]
    /\ pop' = [NoPop EXCEPT !.resume = TRUE]
    /\ UNCHANGED <<dbVars, storeVars, txn, cacheVars, now, hasLocalStorage, pair, detailVars,
                   card, cacheState, announced, queryVars>>

\* The browser stops the service worker: isPopulating and the queue
\* (background.js:12) are lost, chrome.storage.local and the database are
\* kept.  A transaction of the worker that was still running is aborted or
\* is left to the engine.
WorkerStops ==
    /\ worker.up
    /\ worker.stops < MaxStops
    /\ worker' = [up |-> FALSE, stops |-> worker.stops + 1]
    /\ pop' = NoPop
    /\ txn' \in (IF Active THEN {txn, NoTxn} ELSE {txn})
    /\ UNCHANGED <<dbVars, storeVars, cacheVars, now, hasLocalStorage, pair, detailVars,
                   card, cacheState, announced, queryVars>>

\* processQueue moves to the next item; after the last one the completion
\* handler is due (background.js:123-131, 153-170)
Advance(p) ==
    [p EXCEPT !.queue = Tail(@),
              !.phase = IF Len(p.queue) = 1 THEN "finishing" ELSE "running"]

\* The entry fetchAndCache(url) of the background context stores when the
\* fetch fails, background.js:187-196
PopFailureEntry(url, t) == ErrorEntry(url, t)

\* What processQueue broadcasts and persists after an item,
\* background.js:165-168
AfterItem(p) ==
    /\ announced' = Progress(p.processed, p.total, p.processed = p.total)
    /\ cacheState' = RunState("RUNNING", p.processed, p.total)

\* processQueue: the fetch of the next item succeeds, background.js:153-168,
\* 176-186
PopFetchOk(blob, compressed) ==
    /\ worker.up
    /\ pop.phase = "running"
    /\ CanStart
    /\ txn' = ThumbnailTxn(SuccessEntry(Head(pop.queue), blob, now), compressed)
    /\ pop' = [Advance(pop) EXCEPT !.processed = @ + 1]
    /\ AfterItem(pop')
    /\ UNCHANGED <<dbVars, storeVars, cacheVars, now, hasLocalStorage, pair, detailVars,
                   card, worker, queryVars>>

\* The failed fetch ends the job: the rest of the queue is dropped
PopFetchFailStopping ==
    /\ worker.up
    /\ pop.phase = "running"
    /\ CanStart
    /\ txn' = ThumbnailTxn(PopFailureEntry(Head(pop.queue), now), 0)
    /\ pop' = [pop EXCEPT !.queue = <<>>, !.phase = "finishing"]
    /\ AfterItem(pop')
    /\ UNCHANGED <<dbVars, storeVars, cacheVars, now, hasLocalStorage, pair, detailVars,
                   card, worker, queryVars>>

\* processQueue: the fetch of the next item fails, background.js:153-168,
\* 187-196; processed counts the successes only
PopFetchFail ==
    /\ worker.up
    /\ pop.phase = "running"
    /\ CanStart
    /\ txn' = ThumbnailTxn(PopFailureEntry(Head(pop.queue), now), 0)
    /\ pop' = Advance(pop)
    /\ AfterItem(pop')
    /\ UNCHANGED <<dbVars, storeVars, cacheVars, now, hasLocalStorage, pair, detailVars,
                   card, worker, queryVars>>

\* The completion handler of processQueue, background.js:123-131: the final
\* broadcast, isPopulating = false, the persisted state back to IDLE.  The
\* last saveThumbnail has settled by then (processQueue awaits it).
PopComplete ==
    /\ worker.up
    /\ pop.phase = "finishing"
    /\ ~Active
    /\ announced' = Progress(pop.total, pop.total, TRUE)
    /\ pop' = [NoPop EXCEPT !.resume = pop.resume]
    /\ cacheState' = IdleState
    /\ UNCHANGED <<dbVars, storeVars, txn, cacheVars, now, hasLocalStorage, pair, detailVars,
                   card, worker, queryVars>>

\* A day passes
DayPasses ==
    /\ now < MaxDay
    /\ now' = now + 1
    /\ UNCHANGED <<dbVars, storeVars, txn, cacheVars, hasLocalStorage, pair, detailVars,
                   thumbVars, queryVars>>

\* What fetch(url) delivers
FetchedBlobs == {2}

CardStep ==
    \/ \E url \in ThumbUrls : LoadThumbnailForCard(url)
    \/ \E blob \in FetchedBlobs, c \in Compressions : CardFetchOk(blob, c)
    \/ \E c \in Compressions : CardFetchFail(c)

PopulationStep ==
    \/ StartCachePopulation
    \/ \E blob \in FetchedBlobs, c \in Compressions : PopFetchOk(blob, c)
    \/ PopFetchFail
    \/ PopComplete

\* The transactions of both contexts run on the one database; the page's
\* commits set the dirty flag, the service worker's cannot
ThumbEngineStep ==
    \/ ExecRequest
    \/ Commit
    \/ BackgroundCommit

\* The cache before the run: empty, an expired entry with a blob, or a
\* negative entry that is still valid on the first day
InitialThumbs ==
    {EmptyStore,
     Put(EmptyStore, HttpUrl, [url |-> HttpUrl, blob |-> 3, ttl |-> 1, error |-> FALSE]),
     Put(EmptyStore, HttpUrl, ErrorEntry(HttpUrl, 1))}

InitThumb ==
    /\ OpenedWith(InitialThumbs)
    /\ media = Put(Put(EmptyStore, 1, ScrapedItem(1, HttpUrl)), 2, ScrapedItem(2, DataUri))
    /\ qin = NoQuery
    /\ pager = NoPager
    /\ ledger = NoLedger

NextThumb ==
    \/ CardStep
    \/ PopulationStep
    \/ ThumbEngineStep
    \/ DayPasses

SpecThumb == InitThumb /\ [][NextThumb]_vars

HttpUrl2 == "https://x/z.jpg"     \* the thumbnail URL of a second record

\* The background context alone: a run, the browser stopping the service
\* worker, and the next start of the worker
InitResume ==
    /\ OpenedWith({EmptyStore,
                   Put(EmptyStore, HttpUrl,
                       [url |-> HttpUrl, blob |-> 3, ttl |-> 1, error |-> FALSE])})
    /\ media = Put(Put(EmptyStore, 1, ScrapedItem(1, HttpUrl)), 2, ScrapedItem(2, HttpUrl2))
    /\ qin = NoQuery
    /\ pager = NoPager
    /\ ledger = NoLedger

\* The steps a running service worker takes by itself
ResumeProgress ==
    \/ CheckAndResume
    \/ \E blob \in FetchedBlobs, c \in Compressions : PopFetchOk(blob, c)
    \/ PopFetchFail
    \/ PopComplete
    \/ ExecRequest
    \/ BackgroundCommit

NextResume ==
    \/ ResumeProgress
    \/ StartCachePopulation
    \/ WorkerStops
    \/ BackgroundStart
    \/ DayPasses

\* A worker that is alive goes on with its run, every fetch settles, and a
\* browser that stopped the worker starts it again
SpecResume ==
    /\ InitResume
    /\ [][NextResume]_vars
    /\ WF_vars(ResumeProgress)
    /\ WF_vars(BackgroundStart)

----------------------------------------------------------------------------
(* The export experiment: a fixed media collection and one chunk size; the  *)
(* caller dumps the store the way exportDB does (dashboard.js:1653-1686).   *)

InitExport ==
    /\ Opened
    /\ media \in QueryCollections
    /\ qin \in {[NoQuery EXCEPT !.size = n] : n \in 1..MaxPage}
    /\ pager = NoPager
    /\ ledger = NoLedger

\* One iteration of the dump loop: exportStore(store, offset, L),
\* offset += items.length, until hasMore is false
ExportCall ==
    /\ ~pager.done
    /\ LET r == ExportStore(media, Len(pager.items), qin.size)
       IN  pager' = [pager EXCEPT !.items = pager.items \o r.items,
                                  !.calls = pager.calls + 1,
                                  !.done = ~r.hasMore]
    /\ UNCHANGED <<dbVars, storeVars, txn, cacheVars, now, hasLocalStorage, pair, thumbVars, detailVars,
                   qin, ledger>>

NextExport == ExportCall

SpecExport == InitExport /\ [][NextExport]_vars

----------------------------------------------------------------------------
(* The import experiment: importData on a store that holds some of the      *)
(* keys, with input lists that name a key more than once.                   *)

\* Two different items per id, both different from what is stored
ImportVariants ==
    {LegacyItem(i) : i \in Ids} \cup
    {MediaRec(i, "Insta", "bob", DataUri, 2, CSV, "absent") : i \in Ids}

InitImport ==
    /\ Opened
    /\ media \in StoresOver(Ids, [i \in Ids |-> {ScrapedItem(i, HttpUrl)}])
    /\ qin = NoQuery
    /\ pager = NoPager
    /\ ledger = NoLedger

NextImport ==
    \/ \E items \in SeqsUpTo(ImportVariants, MaxImport), mode \in ImportModes :
          ImportData(items, mode)
    \/ ExecRequest
    \/ CollideRequest
    \/ Commit

SpecImport == InitImport /\ [][NextImport]_vars

----------------------------------------------------------------------------
(* The settle experiment: a write operation is called on an open database   *)
(* and the engine takes the transaction to its end, by commit or by abort.  *)

\* The operations whose promise is settled by the handlers of their single
\* request (storage.js:100-104, 174-178, 211-215, 254-258, 310-314); the
\* others settle in transaction.oncomplete / transaction.onerror.
ResolvesOnRequest(kind) ==
    kind \in {"save", "delete", "clearStore", "saveThumbnail", "deleteThumbnail"}

\* The engine aborts the transaction when it commits (the quota is exceeded,
\* say): every request has succeeded, no error event is fired at a request,
\* the writes are rolled back and the transaction gets an abort event only.
\* No operation sets transaction.onabort: a promise that request.onsuccess
\* has resolved stays resolved, the others stay pending.
AbortAtCommit ==
    /\ Active
    /\ txn.queue = <<>>
    /\ dirty' = IF ResolvesOnRequest(txn.kind) /\ Invalidates(txn.kind)
                 THEN InvalidateCache(dirty, hasLocalStorage)
                 ELSE dirty
    /\ txn' = Settled(txn, IF ResolvesOnRequest(txn.kind) THEN "resolved" ELSE "pending")
    /\ UNCHANGED <<dbVars, storeVars, cache, stats, now, hasLocalStorage, pair, thumbVars, detailVars,
                   queryVars>>

InitSettle ==
    /\ Opened
    /\ media \in StoresOver(Ids, [i \in Ids |-> {ScrapedItem(i, HttpUrl)}])
    /\ qin = NoQuery
    /\ pager = NoPager
    /\ ledger = NoLedger

\* What the engine does by itself with a transaction that was begun
SettleEngine ==
    \/ EngineStep
    \/ AbortAtCommit

NextSettle ==
    \/ StatsWriteStep
    \/ SettleEngine

\* The engine ends every transaction
SpecSettle == InitSettle /\ [][NextSettle]_vars /\ WF_vars(SettleEngine)

----------------------------------------------------------------------------

(* The interleaving experiment: two write operations on "media" are issued  *)
(* in either order, the second possibly before the transaction of the first *)
(* has ended.  Each call creates its read-write transaction and places its  *)
(* requests at once; the engine decides which transaction runs.             *)

\* A call: markAsExported(ids, flags) or saveAll("media", items)
MarkCallOf(ids, flags) == [op |-> "markAsExported", ids |-> ids, flags |-> flags, items |-> <<>>]
SaveAllCallOf(items)   == [op |-> "saveAll", ids |-> <<>>, flags |-> 0, items |-> items]

\* The requests the call places synchronously
CallRequests(c) ==
    IF c.op = "markAsExported" THEN MarkRequests(c.ids, c.flags)
    ELSE SaveAllRequests("media", c.items)

\* The store after the call has run alone
CallResult(store, c) ==
    IF c.op = "markAsExported" THEN MarkAsExportedResult(store, c.ids, c.flags)
    ELSE SaveAllResult(store, c.items)

\* An engine that lets every live transaction run its next request
MayRunUnordered(live, j) == TRUE

\* db.transaction(["media"], "readwrite"), storage.js:114 and 1007: both
\* calls open a read-write transaction over the same store, so the engine
\* starts the later one only when the earlier one has ended.
MayRun(live, j) == j = 1

\* Call i is issued: its transaction is created and its requests are placed.
Issue(i) ==
    /\ i \in DOMAIN qin.calls
    /\ i \notin pair.issued
    /\ pair' = [pair EXCEPT
                   !.issued = @ \cup {i},
                   !.together = @ \/ pair.live # <<>>,
                   !.live = Append(@, [who |-> i, started |-> FALSE, work |-> <<>>,
                                       queue |-> CallRequests(qin.calls[i])])]
    /\ UNCHANGED <<dbVars, storeVars, txn, cacheVars, now, hasLocalStorage, thumbVars,
                   detailVars, queryVars>>

\* The store a transaction works on: the committed store when it starts
WorkOf(t) == IF t.started THEN t.work ELSE media

\* The engine runs the next request of live transaction j and its callbacks.
PairRequest(j) ==
    /\ j \in DOMAIN pair.live
    /\ MayRun(pair.live, j)
    /\ pair.live[j].queue # <<>>
    /\ LET t == pair.live[j]
           s == ExecHead(WorkOf(t), t.queue)
       IN  pair' = [pair EXCEPT !.live[j] = [who |-> t.who, started |-> TRUE,
                                             work |-> s.work, queue |-> s.queue]]
    /\ UNCHANGED <<dbVars, storeVars, txn, cacheVars, now, hasLocalStorage, thumbVars,
                   detailVars, queryVars>>

\* Live transaction j has no request left: it commits, oncomplete calls
\* _invalidateCache() and resolves (storage.js:117-120, 1033-1036).
PairComplete(j) ==
    /\ j \in DOMAIN pair.live
    /\ MayRun(pair.live, j)
    /\ pair.live[j].queue = <<>>
    /\ media' = WorkOf(pair.live[j])
    /\ dirty' = InvalidateCache(dirty, hasLocalStorage)
    /\ pair' = [pair EXCEPT
                   !.done = @ \cup {pair.live[j].who},
                   !.live = [k \in 1..(Len(@) - 1) |-> IF k < j THEN @[k] ELSE @[k + 1]]]
    /\ UNCHANGED <<dbVars, thumbs, txn, cache, stats, now, hasLocalStorage, thumbVars,
                   detailVars, queryVars>>

PairFlags == {URLS, CSV}

PairCalls ==
    {MarkCallOf(ids, f) : ids \in SeqsUpTo(Ids, MaxBatch), f \in PairFlags}
    \cup {SaveAllCallOf(items) : items \in SeqsUpTo({ScrapedItem(i, t) : i \in Ids,
                                                      t \in {DataUri, HttpUrl}}, 1)}

PairRecs(i) ==
    {MediaRec(i, "TikTok", "alice", DataUri, 1, Undef, "absent"),
     MediaRec(i, "TikTok", "alice", HttpUrl, 1, THUMBNAILS, "true")}

InitPair ==
    /\ Opened
    /\ media \in StoresOver(Ids, [i \in Ids |-> PairRecs(i)])
    /\ qin \in {[NoQuery EXCEPT !.calls = <<c1, c2>>] :
                   c1 \in {c \in PairCalls : c.op = "markAsExported"}, c2 \in PairCalls}
    /\ pager = NoPager
    /\ ledger = [NoLedger EXCEPT !.before = media]

NextPair ==
    \/ \E i \in 1..2 : Issue(i)
    \/ \E j \in 1..2 : PairRequest(j)
    \/ \E j \in 1..2 : PairComplete(j)

SpecPair == InitPair /\ [][NextPair]_vars

----------------------------------------------------------------------------

(* The top-user experiment: getStorageUsage and calculateDetailedStats each *)
(* reduce a per-user accumulator object to its maximum (storage.js:385-388, *)
(* 442-447, 636-638, 683-689).                                              *)

\* A user id that is an array index, such as "7", and its number; 0 for
\* every other string
IndexValue(u) == CASE u = "7" -> 7 [] u = "12" -> 12 [] OTHER -> 0

IsIndexKey(u) == IndexValue(u) > 0

\* An accumulator object ({}): its keys in the order in which the properties
\* were created, and their values
NoAcc == [keys |-> <<>>, val |-> <<>>]

\* obj[u] = (obj[u] || 0) + n, guarded by "if (m.userId)"
Accumulate(acc, u, n) ==
    IF u = "" THEN acc
    ELSE [keys |-> IF Present(acc.val, u) THEN acc.keys ELSE Append(acc.keys, u),
          val  |-> Put(acc.val, u, (IF Present(acc.val, u) THEN acc.val[u] ELSE 0) + n)]

\* What a record adds: 1 to userItemCounts, its size to userSizes
Weight(m, bySize) == IF bySize THEN MediaItemSize(m) ELSE 1

\* The cursor loop filling the accumulator
RECURSIVE Tally(_, _, _)
Tally(recs, bySize, acc) ==
    IF recs = <<>> THEN acc
    ELSE Tally(Tail(recs), bySize,
               Accumulate(acc, Head(recs).userId, Weight(Head(recs), bySize)))

RECURSIVE SortIndexKeys(_)
SortIndexKeys(S) ==
    IF S = {} THEN <<>>
    ELSE LET u == CHOOSE x \in S : \A y \in S : IndexValue(x) <= IndexValue(y)
         IN  <<u>> \o SortIndexKeys(S \ {u})

\* The keys of Object.entries(obj): the array-index keys in ascending numeric
\* order, then the other keys in the order of their creation
ObjectEntries(acc) ==
    SortIndexKeys({acc.keys[i] : i \in {j \in DOMAIN acc.keys : IsIndexKey(acc.keys[j])}})
    \o SelectSeq(acc.keys, LAMBDA u : ~IsIndexKey(u))

\* let topUser = { userId: "None", count: 0 }
NoTop == [userId |-> "None", n |-> 0]

\* for (const [userId, n] of entries) if (n > topUser.n) topUser = { userId, n }
RECURSIVE MaxReduce(_, _, _)
MaxReduce(keys, val, top) ==
    IF keys = <<>> THEN top
    ELSE MaxReduce(Tail(keys), val,
                   IF val[Head(keys)] > top.n
                   THEN [userId |-> Head(keys), n |-> val[Head(keys)]]
                   ELSE top)

\* topUser of getStorageUsage (bySize = FALSE) and of calculateDetailedStats
TopUser(store, bySize) ==
    LET acc == Tally(FullCursor(store), bySize, NoAcc)
    IN  MaxReduce(ObjectEntries(acc), acc.val, NoTop)

TopRecs(i) ==
    {MediaRec(i, "TikTok", u, t, 1, Undef, "absent") :
        u \in {"", "alice", "bob", "7"}, t \in {"", HttpUrl}}

InitTop ==
    /\ Opened
    /\ media \in StoresOver(QueryIds, [i \in QueryIds |-> TopRecs(i)])
    /\ qin = NoQuery
    /\ pager = NoPager
    /\ ledger = NoLedger

\* getStorageUsage(true) or calculateDetailedStats() runs and returns its topUser
TopUserCall(bySize) ==
    /\ (IF bySize THEN pager.topSize ELSE pager.top) = NotAsked
    /\ pager' = IF bySize THEN [pager EXCEPT !.topSize = TopUser(media, TRUE)]
                 ELSE [pager EXCEPT !.top = TopUser(media, FALSE)]
    /\ UNCHANGED <<dbVars, storeVars, txn, cacheVars, now, hasLocalStorage, pair, thumbVars,
                   detailVars, qin, ledger>>

NextTop == \E bySize \in BOOLEAN : TopUserCall(bySize)

SpecTop == InitTop /\ [][NextTop]_vars

----------------------------------------------------------------------------

(* The chunk experiment: calculateDetailedStats on collections that reach   *)
(* the chunk size, where the cursor is continued from a timer               *)
(* (storage.js:640-644, 671-675).  The chunk size is scaled down.           *)

ChunkSize == 2     \* stands for CHUNK_SIZE = 500 (storage.js:545)

ChunkIds == 1..(ChunkSize + 1)

\* The cursor callbacks from the record at position pos on: each record is
\* added and reported; after a record that makes processed a multiple of the
\* chunk size the callback sets the timer and returns (yield), otherwise it
\* continues the cursor; past the last record the scan resolves.
RECURSIVE ChunkLoop(_, _, _)
ChunkLoop(c, sizes, pos) ==
    IF pos > Len(sizes) THEN [c |-> c, yield |-> FALSE]
    ELSE LET c1 == ReportProgress([c EXCEPT !.mediaSize = @ + sizes[pos],
                                            !.processed = @ + 1])
         IN  IF c1.processed % ChunkSize = 0
             THEN [c |-> c1, yield |-> TRUE]
             ELSE ChunkLoop(c1, sizes, pos + 1)

\* Phase 1, lines 618-652
ChunkScanMedia ==
    /\ calc.phase = "media"
    /\ ~Active
    /\ LET r == ChunkLoop(calc, MediaSizes(media), 1)
       IN  calc' = [r.c EXCEPT !.phase = IF r.yield THEN "mediaTimer" ELSE "thumbs"]
    /\ UNCHANGED <<dbVars, storeVars, txn, cacheVars, now, hasLocalStorage, pair, thumbVars, detailed,
                   calcRequested, queryVars>>

\* Phases 2-4, lines 654-711
ChunkScanThumbs ==
    /\ calc.phase = "thumbs"
    /\ ~Active
    /\ LET r == ChunkLoop(calc, ThumbSizes(thumbs, DOMAIN thumbs), 1)
       IN  IF r.yield
           THEN /\ calc' = [r.c EXCEPT !.phase = "thumbsTimer"]
                /\ UNCHANGED detailed
           ELSE /\ detailed' = [cachedAt |-> now, totalSizeBytes |-> r.c.mediaSize]
                /\ calc' = [r.c EXCEPT !.phase = "idle",
                                       !.log = Append(r.c.log, Status("COMPLETE", 100))]
    /\ UNCHANGED <<dbVars, storeVars, txn, cacheVars, now, hasLocalStorage, pair, thumbVars, calcRequested,
                   queryVars>>

\* setTimeout(() => cursor.continue(), YIELD_MS) fires, lines 641 and 672.
\* The callback that set the timer returned without a request pending, so
\* the read-only transaction has ended; continue() throws
\* TransactionInactiveError inside the timer callback, outside the promise
\* of the scan: neither onsuccess nor onerror of the cursor request is
\* called again, and the catch and finally of lines 712-718 are not reached.
ChunkTimerFires ==
    /\ calc.phase \in {"mediaTimer", "thumbsTimer"}
    /\ calc' = [calc EXCEPT !.phase = "abandoned"]
    /\ UNCHANGED <<dbVars, storeVars, txn, cacheVars, now, hasLocalStorage, pair, thumbVars, detailed,
                   calcRequested, queryVars>>

InitChunk ==
    /\ OpenedWith({EmptyStore} \cup DetailThumbs)
    /\ media \in StoresOver(ChunkIds, [i \in ChunkIds |-> {ScrapedItem(i, ""),
                                                           ScrapedItem(i, HttpUrl)}])
    /\ qin = NoQuery
    /\ pager = NoPager
    /\ ledger = NoLedger

NextChunk ==
    \/ CalcStart
    \/ CalcCountError
    \/ ChunkScanMedia
    \/ ChunkScanThumbs
    \/ ChunkTimerFires
    \/ CalcError
    \/ Tick(1)

\* A run that can take a step takes one: the engine answers every request
\* and every timer fires
ChunkProgress ==
    \/ ChunkScanMedia
    \/ ChunkScanThumbs
    \/ ChunkTimerFires

SpecChunk == InitChunk /\ [][NextChunk]_vars /\ WF_vars(ChunkProgress)

----------------------------------------------------------------------------

(* The counts experiment: the fast counts of getStorageUsage over a media   *)
(* store and a thumbnails store (storage.js:363-469).                       *)

HttpUrl3 == "https://x/o.jpg"     \* a URL no media record of the experiment has

Max(a, b) == IF a >= b THEN a ELSE b

\* Lines 394-398: the media cursor counts the record as invalid or adds its
\* URL to urlRefCounts
InvalidThumb(m) == m.thumbnailUrl = "" \/ StartsWithData(m.thumbnailUrl)

RECURSIVE MediaPass(_, _)
MediaPass(recs, acc) ==
    IF recs = <<>> THEN acc
    ELSE LET m == Head(recs)
             u == m.thumbnailUrl
         IN  MediaPass(Tail(recs),
                 IF InvalidThumb(m) THEN [acc EXCEPT !.invalid = @ + 1]
                 ELSE [acc EXCEPT !.refs = Put(@, u, (IF Present(@, u) THEN @[u] ELSE 0) + 1)])

\* Lines 420-434: the class of a referenced thumbnail entry
EntryClass(t, time) ==
    IF t.ttl # 0 /\ t.ttl < time THEN "expired"
    ELSE IF t.error THEN "failed" ELSE "cached"

\* Lines 414-438: the thumbnail cursor
RECURSIVE ThumbPass(_, _, _, _, _)
ThumbPass(ts, K, refs, time, acc) ==
    IF K = {} THEN acc
    ELSE LET u == CHOOSE x \in K : TRUE
             cl == EntryClass(ts[u], time)
         IN  ThumbPass(ts, K \ {u}, refs, time,
                 IF Present(refs, u) THEN [acc EXCEPT ![cl] = @ + refs[u]]
                 ELSE [acc EXCEPT !.orphaned = @ + 1])

\* videosMissing without the failed entries
VideosMissingButFailed(total, invalid, cached, expired, failed) ==
    Max(0, total - invalid - cached - expired)

\* Line 449
VideosMissing(total, invalid, cached, expired, failed) ==
    Max(0, total - invalid - cached - expired - failed)

\* The counts of the result, lines 451-466
FastCounts(ms, ts, time) ==
    LET m == MediaPass(FullCursor(ms), [invalid |-> 0, refs |-> <<>>])
        t == ThumbPass(ts, DOMAIN ts, m.refs, time,
                       [cached |-> 0, expired |-> 0, failed |-> 0, orphaned |-> 0])
    IN  [totalVideos |-> Cardinality(DOMAIN ms),
         totalThumbnails |-> Cardinality(DOMAIN ts),
         cachedThumbnails |-> t.cached,
         invalidThumbnails |-> m.invalid,
         expiredThumbnails |-> t.expired,
         failedThumbnails |-> t.failed,
         videosNotCached |-> VideosMissing(Cardinality(DOMAIN ms), m.invalid,
                                           t.cached, t.expired, t.failed),
         orphanedThumbnails |-> t.orphaned]

CountRecs(i) == {ScrapedItem(i, u) : u \in {"", DataUri, HttpUrl, HttpUrl2}}

\* What the card loader and the population store under a URL: a blob
\* fetched today, a blob fetched six days ago, a failure of today
CountEntry(u, kind) ==
    CASE kind = "new" -> SuccessEntry(u, 2, 1)
      [] kind = "old" -> SuccessEntry(u, 2, 1 - (THUMB_TTL - 1))
      [] kind = "bad" -> ErrorEntry(u, 1)

CountUrls == {HttpUrl, HttpUrl2, HttpUrl3}

CountThumbs ==
    UNION {{[u \in S |-> CountEntry(u, kind[u])] : kind \in [S -> {"new", "old", "bad"}]} :
              S \in SUBSET CountUrls}

InitCounts ==
    /\ OpenedWith(CountThumbs)
    /\ media \in StoresOver(QueryIds, [i \in QueryIds |-> CountRecs(i)])
    /\ qin = NoQuery
    /\ pager = NoPager
    /\ ledger = NoLedger

\* getStorageUsage(true) runs and returns its counts
UsageCountsCall ==
    /\ pager.items = <<>>
    /\ pager' = [pager EXCEPT !.items = <<FastCounts(media, thumbs, now)>>]
    /\ UNCHANGED <<dbVars, storeVars, txn, cacheVars, now, hasLocalStorage, pair, thumbVars,
                   detailVars, qin, ledger>>

NextCounts ==
    \/ UsageCountsCall
    \/ DayPasses

SpecCounts == InitCounts /\ [][NextCounts]_vars

----------------------------------------------------------------------------

(* The single-flight experiment: START_CACHE_POPULATION messages and the    *)
(* onStartup / onInstalled events arrive in any order while runs are in     *)
(* progress; the worker is not stopped.                                     *)

\* init() or getAll("media") rejects inside startCachePopulation: the catch
\* of background.js:140-148 resets isPopulating, persists IDLE and
\* broadcasts a completion.  byEvent: the call came from checkAndResume.
ScanFails(byEvent) ==
    /\ worker.up
    /\ pop.phase = "idle"
    /\ byEvent => pop.resume
    /\ pop' = IF byEvent THEN [pop EXCEPT !.resume = FALSE] ELSE pop
    /\ cacheState' = IdleState
    /\ announced' = Progress(0, 0, TRUE)
    /\ UNCHANGED <<dbVars, storeVars, txn, cacheVars, now, hasLocalStorage, pair, detailVars,
                   card, worker, queryVars>>

\* The browser is about to start the service worker, and does not stop it
InitSingle ==
    /\ OpenedIn({EmptyStore,
                 Put(EmptyStore, HttpUrl,
                     [url |-> HttpUrl, blob |-> 3, ttl |-> 1, error |-> FALSE])},
                [up |-> FALSE, stops |-> MaxStops])
    /\ media \in {EmptyStore,
                  Put(EmptyStore, 1, ScrapedItem(1, HttpUrl)),
                  Put(Put(EmptyStore, 1, ScrapedItem(1, HttpUrl)), 2, ScrapedItem(2, HttpUrl2))}
    /\ qin = NoQuery
    /\ pager = NoPager
    /\ ledger = NoLedger

\* The steps a run takes by itself
SingleProgress ==
    \/ \E blob \in FetchedBlobs, c \in Compressions : PopFetchOk(blob, c)
    \/ PopFetchFail
    \/ PopComplete
    \/ ExecRequest
    \/ BackgroundCommit

NextSingle ==
    \/ BackgroundStart
    \/ CheckAndResume
    \/ StartCachePopulation
    \/ \E byEvent \in BOOLEAN : ScanFails(byEvent)
    \/ SingleProgress
    \/ DayPasses

\* Every fetch and every database request settles
SpecSingle == InitSingle /\ [][NextSingle]_vars /\ WF_vars(SingleProgress)

----------------------------------------------------------------------------

(* The channel experiment: a fixed media collection, the filters of the     *)
(* export panel and one export mode; handleExportAction runs exportUsers or *)
(* exportUrls once (export.js:376-396).                                     *)

UrlsLimit == 500000     \* export.js:443
UserLimit == 10000      \* export.js:427

\* getExportFlag(mode), export.js:338-356
GetExportFlag(mode) == IF mode = "users" THEN USERS ELSE URLS

\* The ids of a list of records
RecIds(items) == [i \in 1..Len(items) |-> items[i].id]

\* exportUrls, export.js:443-450: the records written out and marked
ExportUrlsItems(store, c) == QueryMedia(store, c, 0, UrlsLimit).items

\* exportUsers, export.js:424-432: the ids collected for the users of a batch,
\* each user's records coming from queryMedia({ userId: u }, 0, 10000)
RECURSIVE IdsToMark(_, _)
IdsToMark(store, users) ==
    IF users = <<>> THEN <<>>
    ELSE RecIds(QueryMedia(store, Criteria("", Head(users), 0, 0, FALSE, 0),
                           0, UserLimit).items)
         \o IdsToMark(store, Tail(users))

\* markAsExported(ids, flags) behind "if (idsToMark.length > 0)", export.js:434-436
MarkedIfAny(store, ids, flags) ==
    IF ids = <<>> THEN store ELSE MarkAsExportedResult(store, ids, flags)

ChannelRecs(i) ==
    {MediaRec(i, "TikTok", "alice", HttpUrl, 1, Undef, "absent"),
     MediaRec(i, "Insta", "alice", HttpUrl, 2, Undef, "absent"),
     MediaRec(i, "TikTok", "bob", HttpUrl, 2, USERS, "absent"),
     MediaRec(i, "Insta", "", HttpUrl, 1, URLS, "absent")}

ChannelCollections == StoresOver(QueryIds, [i \in QueryIds |-> ChannelRecs(i)])

\* getActiveFilters, export.js:289-331: an end date comes with every start
\* date, and the exclude mask is the flag of the current mode
ChannelCriteria(mode) ==
    {Criteria(p, u, d[1], d[2], n, IF n THEN GetExportFlag(mode) ELSE 0) :
        p \in {"ALL", "TikTok"}, u \in {"", "alice"},
        d \in {<<0, 0>>, <<0, 1>>, <<2, 2>>}, n \in BOOLEAN}

\* An export of the given mode; flags is what it will hand to markAsExported:
\* the flag of the mode, or ALL_EXPORT with "export-new-only-global" checked
ExportCallOf(mode, flags) == [op |-> mode, ids |-> <<>>, flags |-> flags, items |-> <<>>]

InitChannel ==
    /\ Opened
    /\ media \in ChannelCollections
    /\ qin \in UNION {{[NoQuery EXCEPT !.criteria = c, !.calls = <<ExportCallOf(mode, f)>>] :
                          c \in ChannelCriteria(mode),
                          f \in {GetExportFlag(mode), ALL_EXPORT}} :
                      mode \in {"users", "urls"}}
    /\ pager = NoPager
    /\ ledger = NoLedger

\* exportUsers(filters), export.js:410-439
ExportUsers ==
    /\ ledger.calls = 0
    /\ qin.calls[1].op = "users"
    /\ LET users == UniqueUsers(media, qin.criteria)
       IN  /\ Len(users) > 0
           /\ pager' = [pager EXCEPT !.asked = TRUE, !.users = users]
           /\ media' = MarkedIfAny(media, IdsToMark(media, users), qin.calls[1].flags)
    /\ ledger' = [ledger EXCEPT !.before = media, !.calls = 1]
    /\ UNCHANGED <<dbVars, thumbs, txn, cacheVars, now, hasLocalStorage, pair, thumbVars, detailVars,
                   qin>>

\* exportUrls(filters), export.js:441-457
ExportUrls ==
    /\ ledger.calls = 0
    /\ qin.calls[1].op = "urls"
    /\ LET items == ExportUrlsItems(media, qin.criteria)
       IN  /\ Len(items) > 0
           /\ pager' = [pager EXCEPT !.done = TRUE, !.items = items]
           /\ media' = MarkAsExportedResult(media, RecIds(items), qin.calls[1].flags)
    /\ ledger' = [ledger EXCEPT !.before = media, !.calls = 1]
    /\ UNCHANGED <<dbVars, thumbs, txn, cacheVars, now, hasLocalStorage, pair, thumbVars, detailVars,
                   qin>>

NextChannel ==
    \/ ExportUsers
    \/ ExportUrls

SpecChannel == InitChannel /\ [][NextChannel]_vars

----------------------------------------------------------------------------

(* Properties *)

ItemIds(items) == {items[i].id : i \in 1..Len(items)}

SeqElems(q) == {q[i] : i \in 1..Len(q)}

IsHttp(u) == u # "" /\ ~StartsWithData(u)

\* C1: init() opens the database at most once at a time.  While an open is in
\* flight there is exactly one open request, and every caller inside init()
\* awaits the promise of that request; no open request is issued while one
\* is in flight, nor once the handle is set.
C1_InitCoalesced ==
    /\ [](/\ Cardinality(openReqs) <= 1
          /\ \A c \in Callers :
                awaiting[c] # 0 => (awaiting[c] = initPromise /\ openReqs = {initPromise}))
    /\ [][(db \/ openReqs # {}) => openReqs' \subseteq openReqs]_vars

\* C1, its case: two callers await the same promise of the one open in flight.
C1_Witness ==
    /\ Cardinality(openReqs) = 1
    /\ \E c1, c2 \in Callers : c1 # c2 /\ awaiting[c1] # 0 /\ awaiting[c1] = awaiting[c2]

\* C2: in a saveAll transaction, a put of an item whose thumbnailUrl is a
\* data: URI is applied only when, at that moment, no record with its id is
\* stored or the stored record's thumbnailUrl is a data: URI or empty; a
\* record with an HTTP(S) thumbnailUrl is never replaced by a data: one.
C2_NoThumbnailDowngrade ==
    [][(/\ Active
        /\ txn.kind = "saveAll"
        /\ txn.queue # <<>>
        /\ Head(txn.queue).op = "put"
        /\ StartsWithData(Head(txn.queue).rec.thumbnailUrl)
        /\ txn'.phase = "active"
        /\ txn'.applied = txn.applied + 1)
       => ~(/\ Present(txn.work, Head(txn.queue).key)
            /\ IsHttp(txn.work[Head(txn.queue).key].thumbnailUrl))]_vars

\* C3: markAsExported(ids, flags) called twice in a row leaves the media
\* collection as the first call left it.
C3_MarkIdempotent == ledger.calls = 2 => media = ledger.once

\* C3, its case: the second call has run on a collection the first call changed,
\* with an id listed twice.
C3_Witness ==
    /\ ledger.calls = 2
    /\ ledger.once # ledger.before
    /\ Len(qin.ids) = 2
    /\ qin.ids[1] = qin.ids[2]

\* C4: a stored record with the legacy field exported = true whose id is in
\* ids has, after markAsExported(ids, flags), no exported field and
\* exportFlags = (old exportFlags, 0 if undefined) | ALL_EXPORT | flags, and
\* ALL_EXPORT is URLS|USERS|THUMBNAILS|CSV|DB without VIEWED.
C4_LegacyMigration ==
    /\ ALL_EXPORT = URLS + USERS + THUMBNAILS + CSV + DB
    /\ BitAnd(ALL_EXPORT, VIEWED) = 0
    /\ ledger.calls >= 1 =>
          \A id \in SeqElems(qin.ids) \cap DOMAIN ledger.before :
              ledger.before[id].exported = "true" =>
                  /\ Present(media, id)
                  /\ media[id].exported = "absent"
                  /\ media[id].exportFlags =
                        BitOr(BitOr(FlagsOrZero(ledger.before[id]), ALL_EXPORT), qin.flags)

\* C4, its case: a legacy record with VIEWED set was marked with a single flag.
C4_Witness ==
    /\ ledger.calls = 1
    /\ qin.flags = CSV
    /\ \E id \in SeqElems(qin.ids) \cap DOMAIN ledger.before :
          /\ ledger.before[id].exported = "true"
          /\ ledger.before[id].exportFlags = VIEWED
          /\ media[id].exportFlags = VIEWED + ALL_EXPORT

NewOnly(mask) == Criteria("", "", 0, 0, TRUE, mask)

Selected(store, c) == {k \in DOMAIN store : QueryMatch(store[k], c, "none")}

\* C6: paging queryMedia(criteria, k*P, P) for k = 0, 1, ... until hasMore is
\* false returns every record that matches the criteria exactly once, and
\* ends after finitely many calls.
C6_PaginationComplete ==
    /\ pager.calls <= Cardinality(Selected(media, qin.criteria)) + 1
    /\ pager.done =>
          /\ ItemIds(pager.items) = Selected(media, qin.criteria)
          /\ Len(pager.items) = Cardinality(Selected(media, qin.criteria))
          /\ \A i \in 1..Len(pager.items) : pager.items[i] = media[pager.items[i].id]

\* C6, its case: the loop ended after several pages over a collection in
\* which some record does not match.
C6_Witness ==
    /\ pager.done
    /\ pager.calls >= 2
    /\ Len(pager.items) >= 2
    /\ Selected(media, qin.criteria) # DOMAIN media
    /\ qin.criteria.newOnly

\* C7: countMedia(criteria) equals the number of records that paging
\* queryMedia(criteria) to the end returns.
C7_CountEqualsQuery ==
    (pager.done /\ pager.count # -1) => pager.count = Len(pager.items)

NoCriteria == Criteria("", "", 0, 0, FALSE, 0)

\* totalVideos of the result a getStorageUsage() called in this state returns:
\* the cached snapshot's (line 335) or mediaStore.count() (lines 367, 457)
UsageTotalVideos ==
    IF CacheUsable(FALSE, dirty, cache, now, hasLocalStorage)
    THEN cache.totalVideos
    ELSE Cardinality(DOMAIN media)

\* C8: in every state with the database open and no operation in flight,
\* the totalVideos that getStorageUsage() returns equals countMedia({}) and
\* the length of getAll('media').
C8_StatsConsistent ==
    (db /\ ~Active /\ stats.phase # "scanned")
       => /\ UsageTotalVideos = CountMedia(media, NoCriteria)
          /\ UsageTotalVideos = Len(GetAll(media))

BatchOps == {"saveAll", "deleteBatch", "markAsExported"}

\* The collection after the whole batch of the transaction t has been applied
BatchResult(store, t) ==
    CASE t.kind = "saveAll"        -> SaveAllResult(store, t.arg)
      [] t.kind = "deleteBatch"    -> DeleteBatchResult(store, t.arg)
      [] t.kind = "markAsExported" -> MarkAsExportedResult(store, t.arg.ids, t.arg.flags)

\* C9: saveAll, deleteBatch and markAsExported are atomic.  When a request of
\* the batch fails the promise rejects and the stored collection is what it
\* was before the call; when the promise resolves the whole batch has been
\* applied; the stored collection that readers see changes in no other step.
C9_BatchAtomic ==
    [][txn.kind \in BatchOps /\ Active =>
          /\ txn'.phase = "rejected" => media' = media
          /\ txn'.phase = "resolved" =>
                /\ media' = BatchResult(media, txn)
                /\ txn.kind = "deleteBatch" =>
                      \A k \in SeqElems(txn.arg) : ~Present(media', k)
                /\ txn.kind = "markAsExported" =>
                      \A k \in SeqElems(txn.arg.ids) \cap DOMAIN media :
                          BitAnd(media'[k].exportFlags, txn.arg.flags) = txn.arg.flags
                /\ txn.kind = "saveAll" =>
                      \A k \in ItemIds(txn.arg) : Present(media', k)
          /\ txn'.phase = "active" => media' = media]_vars

\* C9, its case: a batch was rejected after some of its requests had run.
C9_Witness ==
    /\ txn.phase = "rejected"
    /\ txn.kind \in BatchOps
    /\ txn.applied >= 1
    /\ media # EmptyStore

\* C10: when a mutating operation resolves in a context that has localStorage
\* the dirty flag is "true"; a read operation never changes the dirty flag.
C10_WritesSetDirty ==
    [][/\ (Active /\ txn.kind \in WriteOps /\ txn'.phase = "resolved" /\ hasLocalStorage)
             => dirty' = "true"
       /\ (txn' # txn /\ txn'.kind \in ReadOps) => dirty' = dirty]_vars

\* C10, its case: saveThumbnail has resolved and the flag is set.
C10_Witness ==
    /\ txn.phase = "resolved"
    /\ txn.kind = "saveThumbnail"
    /\ hasLocalStorage
    /\ dirty = "true"

----------------------------------------------------------------------------
(* Properties of the statistics cache *)

\* The condition under which the snapshot is reused, in the words of the
\* contract: not forced, flag "false", age strictly below the TTL
FreshAndClean(force) ==
    /\ ~force
    /\ dirty = "false"
    /\ now - cache.cachedAt < CACHE_TTL

\* C11: getStorageUsage(forceRefresh) returns the cached snapshot, scanning
\* nothing and writing nothing, exactly when forceRefresh is false, the dirty
\* flag is "false" and the snapshot is younger than the TTL; otherwise it
\* counts the stored records and, where localStorage exists, stores the new
\* snapshot with the time of storing and sets the dirty flag to "false".
C11_CacheOnlyWhenFresh ==
    /\ [](\A f \in BOOLEAN :
             CacheUsable(f, dirty, cache, now, hasLocalStorage) <=> FreshAndClean(f))
    /\ [][(stats' # stats /\ stats'.phase = "returned" /\ stats'.path = "cache")
             => /\ FreshAndClean(stats'.force)
                /\ stats'.totalVideos = cache.totalVideos
                /\ UNCHANGED <<dirty, cache, media, thumbs>>]_vars
    /\ [][(stats' # stats /\ stats'.phase = "scanned")
             => /\ ~FreshAndClean(stats'.force)
                /\ stats'.totalVideos = Cardinality(DOMAIN media)]_vars
    /\ [][(stats' # stats /\ stats.phase = "scanned")
             => /\ stats'.phase = "returned"
                /\ stats'.path = "scan"
                /\ stats'.totalVideos = stats.totalVideos
                /\ hasLocalStorage =>
                      /\ cache'.totalVideos = stats.totalVideos
                      /\ cache'.cachedAt = now
                      /\ dirty' = "false"]_vars

\* C11, its case: the snapshot was returned from the cache at the last moment
\* of its validity, after an earlier recompute had stored it.
C11_Witness ==
    /\ stats.phase = "returned"
    /\ stats.path = "cache"
    /\ now - cache.cachedAt = CACHE_TTL - 1
    /\ media # EmptyStore

----------------------------------------------------------------------------
(* Two contexts: the background service worker writes on behalf of the      *)
(* scrapers (handleMessage, background.js:215-223) and of cache population  *)
(* (fetchAndCache, background.js:172-198); the dashboard page, which has    *)
(* localStorage, calls getStorageUsage.  Both share the database; dirty and *)
(* cache are the page's localStorage.                                       *)

BackgroundWriteStep ==
    \/ \E items \in SeqsUpTo(StatsItems, MaxBatch) : SaveAll(items)      \* SAVE_BATCH
    \/ \E data \in ThumbEntries, c \in Compressions : SaveThumbnail(data, c)     \* cache population
    \/ ExecRequest
    \/ FailRequest
    \/ BackgroundCommit

InitProxy ==
    /\ Opened
    /\ media = EmptyStore
    /\ qin = NoQuery
    /\ pager = NoPager
    /\ ledger = NoLedger

NextProxy ==
    \/ BackgroundWriteStep
    \/ StatsStep
    \/ TickStep

SpecProxy == InitProxy /\ [][NextProxy]_vars

\* C12: when a write made by the background context resolves, the dashboard's
\* getStorageUsage() without forceRefresh does not answer from the snapshot
\* stored before that write: the snapshot is not usable any more.
C12_ProxiedWritesInvalidate ==
    [][(Active /\ txn.kind \in WriteOps /\ txn'.phase = "resolved")
          => ~CacheUsable(FALSE, dirty', cache', now', TRUE)]_vars

----------------------------------------------------------------------------
\* C13: the detailed snapshot is untouched by writes to the stores, and a
\* call of getStorageUsage returns size figures (totalSizeBytes non-null)
\* exactly when a detailed snapshot younger than the TTL exists at that
\* moment, whatever the dirty flag is.
C13_DetailedMergedWhenFresh ==
    /\ [][(Active /\ txn.kind \in WriteOps /\ txn' # txn) => detailed' = detailed]_vars
    /\ [][(stats' # stats /\ stats'.phase = "returned")
             => ((stats'.totalSizeBytes # Null) <=> DetailedFresh(detailed, now))]_vars

----------------------------------------------------------------------------
\* C14: a recompute of getStorageUsage that finds no fresh detailed snapshot
\* returns null sizes without scanning inline and sends CALCULATE_STATS; when
\* the background context handles that request, a run of
\* calculateDetailedStats starts (unless one is already in progress).
C14_RequestCausesCalculation ==
    /\ [][(stats.phase = "scanned" /\ stats'.phase = "returned"
             /\ ~DetailedFresh(detailed, now))
            => /\ stats'.totalSizeBytes = Null
               /\ calcRequested'
               /\ calc' = calc
               /\ detailed' = detailed]_vars
    /\ [][(calcRequested /\ ~calcRequested')
            => (calc.phase # "idle" \/ calc' # calc \/ detailed' # detailed)]_vars

----------------------------------------------------------------------------
Terminal(s) == s.state \in {"COMPLETE", "ERROR"}

----------------------------------------------------------------------------
Multiple5(p) == p % 5 = 0

\* C16: every progress value written with CALCULATING is a multiple of 5
\* between 0 and 100, and the values written after the initial 0 strictly
\* increase (so none decreases and no bucket is reported twice by the
\* per-record reporter), also when records are stored or deleted while the
\* run is in progress.
C16_ProgressBuckets ==
    \A i \in 1..Len(calc.log) :
        calc.log[i].state = "CALCULATING"
          => /\ Multiple5(calc.log[i].progress)
             /\ calc.log[i].progress >= 0
             /\ calc.log[i].progress <= 100
             /\ \A j \in 1..(i - 1) :
                   /\ calc.log[j].progress <= calc.log[i].progress
                   /\ j > 1 => calc.log[j].progress < calc.log[i].progress

----------------------------------------------------------------------------
\* C17: when an open request errors, every caller awaiting it is rejected and
\* the instance keeps neither a handle nor an in-flight promise; whenever
\* there is no handle and no open in flight the instance is as new, so the
\* next init() call issues one new open request; when an open succeeds the
\* handle is set for good and nobody is left waiting.
C17_InitRetryable ==
    /\ [][\A n \in openReqs :
             (n \notin openReqs' /\ ~db')
               => /\ initPromise' = 0
                  /\ \A c \in Callers :
                        awaiting[c] = n => (awaiting'[c] = 0 /\ c \in rejected')]_vars
    /\ []((~db /\ openReqs = {}) => (initPromise = 0 /\ \A c \in Callers : awaiting[c] = 0))
    /\ [][(~db /\ openReqs = {} /\ awaiting' # awaiting)
            => (Cardinality(openReqs') = 1 /\ initPromise' \in openReqs')]_vars
    /\ [][(~db /\ db') => (openReqs' = {} /\ \A c \in Callers : awaiting'[c] = 0)]_vars
    /\ [][db => db']_vars

\* A caller's init() was rejected, a retry by another caller succeeded, and a
\* record has been stored since.
C17_Witness ==
    /\ db
    /\ rejected # {}
    /\ DOMAIN media # {}

----------------------------------------------------------------------------
(* Properties of the thumbnail cache *)

\* The stored entry for the URL has not expired
Unexpired(url) == Present(thumbs, url) /\ now < thumbs[url].ttl

\* C18: while an entry has not expired (now < ttl) neither consumer starts a
\* network fetch for its URL, whether the entry is negative or holds a blob;
\* once now >= ttl both consumers treat the entry as expired: the card loader
\* refetches and the population scan selects it.
C18_NegativeCacheExpiry ==
    /\ [](Present(thumbs, HttpUrl)
            => /\ (now >= thumbs[HttpUrl].ttl)
                     <=> (CardDecision(thumbs[HttpUrl], now) = "expired")
               /\ (now >= thumbs[HttpUrl].ttl) <=> NeedsCache(thumbs[HttpUrl], now))
    /\ [][(card.phase = "idle" /\ card'.phase = "fetching") => ~Unexpired(HttpUrl)]_vars
    /\ [][(pop.phase = "running" /\ pop' # pop) => ~Unexpired(Head(pop.queue))]_vars

\* C19: when a refetch fails while the stored, expired entry of the URL holds a blob,
\* the entry handed to the store keeps that blob (as saveThumbnail stores it)
\* with error = false and ttl = now + 7 days; so a negative entry is written
\* only when no previous blob exists.  This is to hold for the dashboard's
\* and for the background's fetchAndCache.
C19_GracefulDegradation ==
    [][((PopFetchFail \/ \E c \in Compressions : CardFetchFail(c))
          /\ Present(thumbs, HttpUrl)
          /\ now >= thumbs[HttpUrl].ttl
          /\ thumbs[HttpUrl].blob > 0)
         => /\ ~txn'.arg[1].error
            /\ txn'.arg[1].blob \in {StoredBlob(thumbs[HttpUrl].blob, c) : c \in Compressions}
            /\ txn'.arg[1].ttl = now + THUMB_TTL]_vars

\* A stored thumbnail entry is well formed: a negative entry has no blob, any
\* other entry has one
WellFormed(e) == (e.error => e.blob = 0) /\ (~e.error => e.blob > 0)

\* C20: every stored thumbnail entry, and every entry on its way into the
\* store, has error = true with blob = null or error = false with a blob;
\* an entry handed to saveThumbnail carries ttl = now + 7 days when it is a
\* success entry and ttl = now + 24 hours when it is an error entry.
C20_ThumbnailEntryInvariant ==
    /\ [](\A u \in DOMAIN thumbs : WellFormed(thumbs[u]))
    /\ [](Active => \A u \in DOMAIN txn.work : WellFormed(txn.work[u]))
    /\ [][(txn' # txn /\ txn'.phase = "active" /\ txn.phase # "active")
            => /\ WellFormed(txn'.arg[1])
               /\ txn'.arg[1].ttl = now + (IF txn'.arg[1].error THEN ERROR_TTL
                                           ELSE THUMB_TTL)]_vars

\* Both kinds of entry have been stored by the protocol: a negative entry is
\* in the store while a recompressed success entry is being written over it.
C20_Witness ==
    /\ Present(thumbs, HttpUrl)
    /\ thumbs[HttpUrl].error
    /\ thumbs[HttpUrl].ttl = now
    /\ Active
    /\ ~txn.arg[1].error
    /\ txn.arg[1].blob = 1

----------------------------------------------------------------------------
\* C21: for every entry handed to saveThumbnail and every outcome of the
\* recompression, the entry put into the store has the url, ttl and error of
\* the input, and its blob is the recompressed one exactly when that is
\* strictly smaller than the input blob, the input blob otherwise; when the
\* transaction resolves, that entry is the stored one.
C21_RecompressionSafe ==
    /\ [][\A data \in ThumbEntries, c \in Compressions :
             SaveThumbnail(data, c)
               => /\ txn'.arg[1].url = data.url
                  /\ txn'.arg[1].ttl = data.ttl
                  /\ txn'.arg[1].error = data.error
                  /\ txn'.arg[1].blob = IF 0 < c /\ c < data.blob THEN c ELSE data.blob
                  /\ txn'.queue = <<Req("put", data.url, txn'.arg[1], 0)>>]_vars
    /\ [][(Active /\ txn.kind = "saveThumbnail" /\ txn'.phase = "resolved")
            => (Present(thumbs', txn.arg[1].url) /\ thumbs'[txn.arg[1].url] = txn.arg[1])]_vars

\* A saveThumbnail has resolved and the stored blob is the smaller,
\* recompressed one.
C21_Witness ==
    /\ txn.kind = "saveThumbnail"
    /\ txn.phase = "resolved"
    /\ Present(thumbs, HttpUrl)
    /\ thumbs[HttpUrl].blob = 1

----------------------------------------------------------------------------
(* Properties of the background cache population *)

\* The thumbnail of url is missing from the cache or has expired
MissingOrExpired(url) == ~Present(thumbs, url) \/ now >= thumbs[url].ttl

QueuedUrls == {HttpUrl, HttpUrl2}

C23_FailureDoesNotStop ==
    /\ [][PopFetchFail
            => /\ txn'.kind = "saveThumbnail" /\ txn'.phase = "active"
               /\ txn'.arg[1].url = Head(pop.queue)
               /\ txn'.arg[1].error /\ txn'.arg[1].blob = 0
               /\ pop'.queue = Tail(pop.queue)
               /\ pop'.phase = IF Tail(pop.queue) = <<>> THEN "finishing" ELSE "running"]_vars
    /\ [][(Active /\ txn.kind = "saveThumbnail" /\ txn.arg[1].error
             /\ txn'.phase = "resolved")
            => (Present(thumbs', txn.arg[1].url) /\ thumbs'[txn.arg[1].url].error)]_vars
    /\ [][(pop.phase # "idle" /\ pop'.phase = "idle" /\ worker'.up)
            => /\ pop.queue = <<>>
               /\ announced' = Progress(pop.total, pop.total, TRUE)
               /\ cacheState'.status = "IDLE"]_vars
    /\ (pop.phase = "finishing") ~> (announced.complete /\ cacheState.status = "IDLE")

\* The fetch of the first of two items failed, the second was cached, and
\* the run has completed
C23_Witness ==
    /\ now = 1 /\ worker.stops = 0
    /\ pop = NoPop
    /\ Present(thumbs, HttpUrl) /\ thumbs[HttpUrl].error
    /\ Present(thumbs, HttpUrl2) /\ ~thumbs[HttpUrl2].error
    /\ announced = Progress(2, 2, TRUE)
    /\ cacheState = IdleState

----------------------------------------------------------------------------
(* Properties of export and import *)

\* C24: exportStore dump completeness.  Over an unchanging collection of N
\* records and a limit L >= 1, the loop that starts at offset 0 and adds the
\* number of items returned after each call has, at every moment, dumped a
\* prefix of the store in key order; when a call returns hasMore = false it
\* has dumped every record exactly once; it makes at most N + 1 calls; and a
\* call with offset >= N returns no items and hasMore = false.
C24_ExportComplete ==
    LET all == FullCursor(media)
        N == Len(all)
    IN  /\ Len(pager.items) <= N
        /\ pager.items = SubSeq(all, 1, Len(pager.items))
        /\ pager.done => pager.items = all
        /\ pager.calls <= N + 1
        /\ ~pager.done => Len(pager.items) >= pager.calls
        /\ \A o \in N..(N + 2) :
              ExportStore(media, o, qin.size) = [items |-> <<>>, hasMore |-> FALSE]

\* Two records dumped with L = 2: the first call returns both with
\* hasMore = true, the second returns nothing and ends the loop
C24_Witness ==
    /\ pager.done /\ pager.calls = 2
    /\ qin.size = 2
    /\ Len(pager.items) = 2 /\ Cardinality(DOMAIN media) = 2

\* The first / last place of key k in the input list
FirstAt(items, k) == CHOOSE i \in 1..Len(items) :
                        items[i].id = k /\ \A j \in 1..(i - 1) : items[j].id # k

LastAt(items, k) == CHOOSE i \in 1..Len(items) :
                       items[i].id = k /\ \A j \in (i + 1)..Len(items) : items[j].id # k

\* C25: importData in skip mode never modifies an existing record.  When the
\* call settles it has resolved (a key collision neither aborts the
\* transaction nor rejects the promise), every record stored before is
\* unchanged, the records added are exactly the first input item of each key
\* that was absent, and the success count is the number of records added.
\* In overwrite and merge mode the call resolves with, under every input
\* key, the last input item of that key, and the rest of the store unchanged,
\* which is the same store for both modes.
C25_ImportModes ==
    [][(Active /\ txn.kind = "importData" /\ txn'.phase \in {"resolved", "rejected"})
         => LET items == txn.arg.items
                added == DOMAIN media' \ DOMAIN media
            IN  /\ txn'.phase = "resolved"
                /\ DOMAIN media' = DOMAIN media \cup ItemIds(items)
                /\ IF txn.arg.mode = "skip"
                   THEN /\ \A k \in DOMAIN media : media'[k] = media[k]
                        /\ \A k \in added : media'[k] = items[FirstAt(items, k)]
                        /\ txn'.success = Cardinality(added)
                   ELSE /\ \A k \in ItemIds(items) : media'[k] = items[LastAt(items, k)]
                        /\ \A k \in DOMAIN media \ ItemIds(items) : media'[k] = media[k]]_vars

\* A skip import of three items about to commit: one item was added, one
\* collided with a stored record and one with the item added before it
C25_Witness ==
    /\ Active /\ txn.kind = "importData" /\ txn.arg.mode = "skip"
    /\ txn.queue = <<>>
    /\ Len(txn.arg.items) = 3 /\ ItemIds(txn.arg.items) = {1, 2}
    /\ DOMAIN media = {1}
    /\ txn.arg.items[1].id = 2 /\ txn.arg.items[2] # txn.arg.items[1]
    /\ txn.arg.items[2].id = 2
    /\ txn.success = 1

----------------------------------------------------------------------------
(* Properties of the query engine *)

\* The filter of queryMedia as a predicate on a record; a record without
\* scrapedAt satisfies neither date comparison
FilterHolds(r, c) ==
    /\ (c.platform = "" \/ c.platform = "ALL" \/ r.platform = c.platform)
    /\ (c.userId = "" \/ c.userId = "ALL" \/ r.userId = c.userId)
    /\ (c.startDate = 0 \/ (r.scrapedAt # 0 /\ r.scrapedAt >= c.startDate))
    /\ (c.endDate = 0 \/ (r.scrapedAt # 0 /\ r.scrapedAt <= c.endDate))
    /\ (~c.newOnly \/ BitAnd(EffectiveFlags(r), c.excludeMask) = 0)

Filtered(store, c) == {k \in DOMAIN store : FilterHolds(store[k], c)}

\* C26: the filter of queryMedia does not depend on the index chosen.  On
\* the platform index, the userId index or the whole store, the records the
\* pages return, and the records one call with a large limit returns, are
\* exactly the records that satisfy the platform, userId, date-range and
\* newOnly/excludeMask conditions; with three records of alice and two of
\* bob on TikTok, {platform: "TikTok", userId: "alice"} returns the three
\* records of alice with hasMore = false.
C26_FilterCorrect ==
    LET c == qin.criteria
        whole == QueryMedia(media, c, 0, Cardinality(DOMAIN media) + 1)
    IN  /\ pager.done =>
              /\ ItemIds(pager.items) = Filtered(media, c)
              /\ \A i \in 1..Len(pager.items) : pager.items[i] = media[pager.items[i].id]
        /\ whole.items = CursorOver(media, Filtered(media, c))
        /\ ~whole.hasMore
        /\ media = AliceBobStore =>
              QueryMedia(media, Criteria("TikTok", "alice", 0, 0, FALSE, 0), 0, 10)
                 = [items |-> <<media[1], media[3], media[4]>>, hasMore |-> FALSE,
                    left |-> 0]

\* The pages over alice's records on TikTok, read from the platform index
C26_Witness ==
    /\ media = AliceBobStore
    /\ pager.done
    /\ IndexName(qin.criteria) = "platform" /\ qin.criteria.userId = "alice"
    /\ ~qin.criteria.newOnly /\ qin.criteria.startDate = 0 /\ qin.criteria.endDate = 0
    /\ ItemIds(pager.items) = {1, 3, 4}

\* The number of matching records among the first p records of the cursor
MatchesUpTo(cur, c, p) == Cardinality({i \in 1..p : FilterHolds(cur[i], c)})

\* C27: queryMedia stops early and reports hasMore exactly.  For every
\* offset, hasMore is true if and only if more than offset + limit records
\* match; the call then resolves at the (offset + limit + 1)-th matching
\* record of its cursor and requests none of the records behind it; and it
\* never returns more than limit items.
C27_EarlyStop ==
    LET c == qin.criteria
        L == qin.size
        cur == QueryCursor(media, c)
    IN  \A o \in 0..(Cardinality(DOMAIN media) + 1) :
           LET r == QueryMedia(media, c, o, L)
               p == Len(cur) - r.left
           IN  /\ r.hasMore <=> Cardinality(Filtered(media, c)) > o + L
               /\ Len(r.items) <= L
               /\ r.hasMore => /\ FilterHolds(cur[p], c)
                               /\ MatchesUpTo(cur, c, p) = o + L + 1
               /\ ~r.hasMore => r.left = 0

\* The first page over five matching records: the call resolved at the
\* third record and left two records of the cursor unread
C27_Witness ==
    /\ media = AliceBobStore
    /\ pager.calls = 1 /\ ~pager.done
    /\ qin.size = 2
    /\ QueryMedia(media, qin.criteria, 0, qin.size).left = 2

\* The criteria with userId unset
AnyUser(c) == [c EXCEPT !.userId = ""]

\* The userId values in the full result of queryMedia for the criteria with
\* userId unset
QueriedUsers(store, c) ==
    LET r == QueryMedia(store, AnyUser(c), 0, Cardinality(DOMAIN store) + 1)
    IN  {r.items[i].userId : i \in 1..Len(r.items)}

\* C28: getUniqueUsers(criteria) returns, sorted ascending and without
\* duplicates, exactly the non-empty userId values of the media records that
\* match the platform, date-range and newOnly/excludeMask parts of the
\* criteria; this is the set of the non-empty userId values in the full
\* result of queryMedia for the same criteria with userId unset.
C28_UniqueUsers ==
    pager.asked =>
        LET c == qin.criteria
            u == pager.users
        IN  /\ \A i \in 1..(Len(u) - 1) : UserRank(u[i]) < UserRank(u[i + 1])
            /\ SeqElems(u) = {media[k].userId : k \in Filtered(media, AnyUser(c))} \ {""}
            /\ SeqElems(u) = QueriedUsers(media, c) \ {""}

\* C28 as stated: the users returned are the userId values in the full
\* result of queryMedia for the same criteria with userId unset.
C28_UsersEqualQuery ==
    pager.asked => SeqElems(pager.users) = QueriedUsers(media, qin.criteria)

\* Two users returned in order, from a collection in which a matching
\* record has an empty userId
C28_Witness ==
    /\ pager.asked
    /\ pager.users = <<"alice", "bob">>
    /\ "" \in QueriedUsers(media, qin.criteria)

----------------------------------------------------------------------------
(* Properties of markAsExported *)

\* C29: markAsExported(ids, flags) with flags 0 is a no-op for every ids.
\* The call changes no media record (legacy `exported` fields are not
\* migrated), opens no database and no transaction, leaves the dirty flag as
\* it is, and its promise is resolved at once.
C29_NoFlagsNoOp ==
    [][(\E ids \in SeqsUpTo(Ids, MaxBatch) : MarkAsExportedNoFlags(ids))
         => /\ media' = media /\ thumbs' = thumbs
            /\ dirty' = dirty /\ cache' = cache
            /\ db' = db /\ initPromise' = initPromise /\ openReqs' = openReqs
            /\ txn'.kind = "markAsExported" /\ txn'.phase = "resolved"
            /\ txn'.store = "none" /\ txn'.queue = <<>> /\ txn'.applied = 0]_vars

\* The call has returned on a store that holds a legacy record, with the
\* dirty flag unset
C29_Witness ==
    /\ txn.kind = "markAsExported" /\ txn.phase = "resolved" /\ txn.store = "none"
    /\ \E k \in DOMAIN media : media[k].exported = "true"
    /\ dirty = "null"

\* The fields of a record other than exportFlags and exported
Payload(r) == [r EXCEPT !.exportFlags = 0, !.exported = "absent"]

\* C30: a missing key is not an error for markAsExported.  The get of an id
\* that is not stored places no request and lets the transaction go on; the
\* promise is rejected only when the engine fails a request; and when it
\* resolves no record was created, every stored id of the list carries the
\* flags of the call and the bits it had before, its other fields apart from
\* the legacy field are unchanged, and every other record is unchanged.
C30_MissingKeyNoError ==
    /\ [][(ExecRequest /\ txn.kind = "markAsExported"
             /\ Head(txn.queue).op = "getMark"
             /\ ~Present(txn.work, Head(txn.queue).key))
            => /\ txn'.phase = "active"
               /\ txn'.work = txn.work
               /\ txn'.queue = Tail(txn.queue)]_vars
    /\ [][(Active /\ txn.kind = "markAsExported" /\ txn'.phase = "rejected")
            => FailRequest]_vars
    /\ [][(Active /\ txn.kind = "markAsExported" /\ txn'.phase = "resolved")
            => /\ DOMAIN media' = DOMAIN media
               /\ \A k \in DOMAIN media :
                     IF k \in SeqElems(txn.arg.ids)
                     THEN /\ BitAnd(media'[k].exportFlags, txn.arg.flags) = txn.arg.flags
                          /\ BitAnd(media'[k].exportFlags, FlagsOrZero(media[k]))
                                = FlagsOrZero(media[k])
                          /\ Payload(media'[k]) = Payload(media[k])
                     ELSE media'[k] = media[k]]_vars

\* A call with the ids 1 and 2 on a store that holds the record 1 only is
\* about to commit: the record 1 carries the flags, no record 2 was made
C30_Witness ==
    /\ Active /\ txn.kind = "markAsExported" /\ txn.queue = <<>>
    /\ txn.arg.ids = <<1, 2>>
    /\ DOMAIN media = {1} /\ DOMAIN txn.work = {1}
    /\ media[1].exportFlags = Undef
    /\ txn.work[1].exportFlags = BitOr(FlagsOrZero(media[1]), txn.arg.flags)

----------------------------------------------------------------------------
(* Properties of promise settlement *)

\* C31: no caller is left hanging.  The promise of a write operation that has
\* opened its transaction is eventually resolved or rejected, whatever the
\* engine does with the transaction (request error, commit, abort at commit).
C31_NoCallerHangs ==
    (txn.phase = "active") ~> (txn.phase \in {"resolved", "rejected"})

----------------------------------------------------------------------------
(* Properties of the stored export flags *)

HasBit(m, b) == BitAnd(FlagsOrZero(m), b) = b

\* C32: export flags survive re-scraping.  A step of save, saveAll or
\* markAsExported that leaves a record in the store leaves every bit set
\* that was set in its exportFlags.
C32_FlagsSurvive ==
    [][txn.kind \in {"save", "saveAll", "markAsExported"} =>
          \A k \in (DOMAIN media) \cap (DOMAIN media') :
             \A b \in ChannelFlags \cup {VIEWED} :
                HasBit(media[k], b) => HasBit(media'[k], b)]_vars

----------------------------------------------------------------------------
(* Properties of interleaved read-modify-write operations *)

BothDone == pair.done = {1, 2}

SharedIds(c1, c2) == SeqElems(c1.ids) \cap SeqElems(c2.ids)

\* C33: read-modify-write operations lose no update under interleaving.
\* When two calls issued together have both completed: after two
\* markAsExported calls every stored record named by both carries the flags
\* of both; after a markAsExported and a saveAll the store is what one of the
\* two serial orders of the calls yields.
C33_NoLostUpdate ==
    BothDone =>
        LET c1 == qin.calls[1]
            c2 == qin.calls[2]
        IN  IF c2.op = "markAsExported"
            THEN \A k \in SharedIds(c1, c2) \cap DOMAIN media :
                    HasBit(media[k], BitOr(c1.flags, c2.flags))
            ELSE media \in {CallResult(CallResult(ledger.before, c1), c2),
                            CallResult(CallResult(ledger.before, c2), c1)}

\* Two markAsExported calls with different flags and a stored id in common
\* have completed, the second having been issued while the transaction of
\* the first was live.
C33_Witness ==
    /\ BothDone
    /\ pair.together
    /\ qin.calls[2].op = "markAsExported"
    /\ qin.calls[1].flags # qin.calls[2].flags
    /\ SharedIds(qin.calls[1], qin.calls[2]) \cap DOMAIN media # {}

----------------------------------------------------------------------------
(* Properties of the top-user selection *)

\* The sum of the weights of the records of user u
RECURSIVE UserTotal(_, _, _)
UserTotal(recs, u, bySize) ==
    IF recs = <<>> THEN 0
    ELSE (IF Head(recs).userId = u THEN Weight(Head(recs), bySize) ELSE 0)
         + UserTotal(Tail(recs), u, bySize)

\* The position of the first record of user u
FirstSeen(recs, u) == CHOOSE i \in DOMAIN recs :
                         recs[i].userId = u /\ \A j \in 1..(i - 1) : recs[j].userId # u

\* top is the first-seen user among those with the largest total
IsFirstMax(recs, top, bySize) ==
    LET users == {recs[i].userId : i \in DOMAIN recs} \ {""}
    IN  IF users = {} THEN top = NoTop
        ELSE /\ top.userId \in users
             /\ top.n = UserTotal(recs, top.userId, bySize)
             /\ \A u \in users :
                   /\ UserTotal(recs, u, bySize) <= top.n
                   /\ UserTotal(recs, u, bySize) = top.n =>
                         FirstSeen(recs, top.userId) <= FirstSeen(recs, u)

\* C34: top-user selection is a deterministic max-reduction.  The topUser of
\* getStorageUsage has the largest media count ("None" with 0 when no record
\* has a userId), that of calculateDetailedStats the largest byte size, and
\* among users with the same maximum the one seen first in the iteration
\* over the records is chosen.
C34_TopUserFirstMax ==
    /\ pager.top # NotAsked => IsFirstMax(FullCursor(media), pager.top, FALSE)
    /\ pager.topSize # NotAsked => IsFirstMax(FullCursor(media), pager.topSize, TRUE)

----------------------------------------------------------------------------
(* Properties of the chunked calculation *)

\* C35: calculateDetailedStats terminates and releases its guard.  Every run
\* that has started eventually has _isCalculating false again, with COMPLETE
\* or ERROR as the last status written.
C35_CalcTerminates ==
    (calc.phase # "idle") ~>
        (calc.phase = "idle" /\ calc.log # <<>> /\ Terminal(calc.log[Len(calc.log)]))

----------------------------------------------------------------------------
(* Properties of the dirty flag *)

\* C36: getStorageUsage never marks a stale snapshot clean.  Whenever the
\* dirty flag reads "false", the persisted snapshot counts every record that
\* a completed write has stored, so that a getStorageUsage() served from the
\* snapshot omits no completed write.
C36_NoStaleClean ==
    (hasLocalStorage /\ dirty = "false" /\ cache # NoCache)
        => cache.totalVideos = Cardinality(DOMAIN media)

----------------------------------------------------------------------------
(* Properties of the fast counts *)

\* The class of the media record m given the thumbnails store
MediaClass(m, ts, time) ==
    IF InvalidThumb(m) THEN "invalid"
    ELSE IF Present(ts, m.thumbnailUrl) THEN EntryClass(ts[m.thumbnailUrl], time)
    ELSE "notCached"

InClass(cl) == Cardinality({k \in DOMAIN media : MediaClass(media[k], thumbs, now) = cl})

Referenced(u) == \E k \in DOMAIN media : media[k].thumbnailUrl = u

----------------------------------------------------------------------------
(* Properties of the single-flight population *)

\* C38: cache population is single-flight and always returns to idle.  No
\* scan starts while a run is in progress; every run that is in progress
\* eventually ends with isPopulating false and IDLE persisted; whenever no
\* run is in progress the persisted status is IDLE (which GET_CACHE_STATUS
\* reports) and a request starts a new run.
C38_SingleFlight ==
    /\ [][Scan(pop.resume) => pop.phase = "idle"]_vars
    /\ (pop.phase # "idle") ~> (pop.phase = "idle" /\ cacheState.status = "IDLE")
    /\ [](pop.phase = "idle" => cacheState.status = "IDLE")
    /\ []((worker.up /\ pop.phase = "idle" /\ ~Active) => ENABLED StartCachePopulation)

\* A run over two thumbnails has finished its queue and is idle again, the
\* onStartup event having been handled.
C38_Witness ==
    /\ worker.up
    /\ pop.phase = "idle"
    /\ ~pop.resume
    /\ announced = Progress(2, 2, TRUE)
    /\ cacheState = IdleState

----------------------------------------------------------------------------
(* Properties of the export channels *)

\* The media records whose flags an export changed
GainedFlags == {k \in DOMAIN media : media[k] # ledger.before[k]}

\* The media records an export wrote out: the lines of the URL list, or the
\* records matching the filters whose user is on the user list
WrittenOut ==
    IF pager.done THEN ItemIds(pager.items)
    ELSE {k \in DOMAIN ledger.before :
             /\ FilterHolds(ledger.before[k], qin.criteria)
             /\ \E i \in 1..Len(pager.users) : pager.users[i] = ledger.before[k].userId}

\* C39: an export marks only what it exported.  After an export with filter
\* criteria F, every record whose flags changed is a record matching F that
\* the export wrote out, and every record written out carries the flag of the
\* channel (ALL_EXPORT with the global option on).
C39_MarksOnlyExported ==
    ledger.calls = 1 =>
        /\ GainedFlags \subseteq WrittenOut
        /\ \A k \in GainedFlags : FilterHolds(ledger.before[k], qin.criteria)
        /\ \A k \in WrittenOut : HasBit(media[k], qin.calls[1].flags)

\* The same for the URL list alone
UrlsMarksOnlyExported == pager.done => C39_MarksOnlyExported

\* C40: exportStore reports hasMore truthfully.  A call with limit L returns
\* at most L items, and it answers hasMore=true exactly when a record lies
\* behind the last item it returned, in the order of the store.
C40_HasMoreTruthful ==
    [][ExportCall =>
          /\ Len(pager'.items) - Len(pager.items) <= qin.size
          /\ ~pager'.done <=> Len(pager'.items) < Cardinality(DOMAIN media)]_vars

\* The half of it that reads "hasMore=false only if no record is left"
HasMoreFalseIsTrue ==
    [][ExportCall =>
          /\ Len(pager'.items) - Len(pager.items) <= qin.size
          /\ pager'.done => Len(pager'.items) >= Cardinality(DOMAIN media)]_vars

====
